---------------------------- MODULE Spec2Model ----------------------------
(***************************************************************************)
(* A model of the dnd2 repository: the backend entrypoint script, the      *)
(* migration script with its seed rows, and the VideoRoom component of the *)
(* browser UI.  Each part has its own specification over its own           *)
(* variables; the variables of the other parts stay at their idle values.  *)
(***************************************************************************)
EXTENDS Integers, Sequences, FiniteSets, TLC

VARIABLES
    \* backend/entrypoints.sh
    argv,        \* the positional parameters the script was started with
    epc,         \* the statement the shell is at
    stdout,      \* the lines echoed so far
    execs,       \* the commands handed to exec so far
    exitStatus,  \* the exit status once the shell has exited, -1 before
    \* backend/migrations.sql
    dbInitial,   \* the tables that existed before the script ran
    onErrorStop, \* whether the client stops at the first failing statement
    sqlPc,       \* index of the next statement of the script
    dbTables,    \* the tables that exist
    dbRows,      \* table -> ids of its rows
    dbSeq,       \* table -> next value of its id sequence
    sqlFailed,   \* the failed statements: <<index, reasons>>
    dbRefs,      \* the foreign-key values of the rows: table, column, value
    \* the VideoRoom component and what it runs in
    subscriberMode, \* the subscriber-mode flag of the query string
    webrtc,         \* Janus.isWebrtcSupported()
    page,           \* "loaded", or "unloaded" once location.reload() ran
    lastReload,     \* what called location.reload(), when page is unloaded
    started, joined, showDetails, showJoinForm, showVideos,
    username, myUsername,
    sessions,       \* the Janus sessions created by handleStart, in order
    sfutest,        \* sfutestRef.current: session of the publisher handle, 0 for null
    janusRef,       \* janusRef.current: a session, 0 for null
    offers,         \* the createOffer calls made, in order
    pendingSubs,    \* the remote feeds of newRemoteFeed not yet attached
    feeds,          \* the feeds array: slot -> the remote feed it holds
    strays,         \* the remote feeds that were attached and hold no slot
    alertCall,      \* a call of safeAlert: its arguments and the libraries
    alertEff,       \* what that call did, in order
    lastAlert,      \* the message of the last safeAlert call of a handler
    pendingReloads, \* reload callbacks held by a bootbox modal or a timer
    faults,         \* failures the environment has produced on this page
    \* the remote feeds one by one
    feedStreams,    \* the remote publishers that have an entry in feedStreams
    remoteFeeds,    \* the remoteFeed objects of the newRemoteFeed calls, in order
    callbacks,      \* the 'event' messages and tracks delivered to them, in order
    \* the local tracks of the publisher handle
    localTracks,    \* the keys of the localTracks state: track ids
    localVideos,    \* the localVideos state
    closureTracks,  \* localTracks as the callbacks of handleStart see it
    localCalls,     \* how many onlocaltrack calls there were
    lastLocal,      \* the arguments of the last onlocaltrack call
    \* the query string of the page and what VideoRoom reads from it
    search,         \* window.location.search: its parameters in order
    flags,          \* the flags of a render, and myroomRef.current
    \* App and the scripts it loads
    janusDefines,   \* whether janus.js defines window.Janus when it runs
    windowJanus,    \* whether window.Janus is defined
    mounts,         \* the runs of App's effect, in order
    janusLoaded,    \* the janusLoaded state of App
    appView,        \* what App rendered last
    \* index.js: the navigator.mediaDevices polyfill
    browser,        \* what the browser brings: mediaDevices, getUserMedia, legacy APIs
    mediaDevices,   \* navigator.mediaDevices: "undefined" or an object
    gum,            \* navigator.mediaDevices.getUserMedia
    shimPc,         \* "start", "installed" or "called"
    gumResult       \* what a call of navigator.mediaDevices.getUserMedia did

entryVars == <<argv, epc, stdout, execs, exitStatus>>
sqlVars == <<dbInitial, onErrorStop, sqlPc, dbTables, dbRows, dbSeq, sqlFailed,
            dbRefs>>
envVars == <<subscriberMode, webrtc>>
viewVars == <<started, joined, showDetails, showJoinForm, showVideos>>
nameVars == <<username, myUsername>>
janusVars == <<sessions, sfutest, janusRef>>
alertVars == <<lastAlert, pendingReloads>>
feedVars == <<pendingSubs, feeds, strays>>
callVars == <<alertCall, alertEff>>
remoteVars == <<feedStreams, remoteFeeds, callbacks>>
localVars == <<localTracks, localVideos, closureTracks, localCalls, lastLocal>>
uiVars == <<envVars, page, lastReload, viewVars, nameVars, janusVars, offers,
            feedVars, alertVars, faults>>
queryVars == <<search, flags>>
loadVars == <<janusDefines, windowJanus, mounts, janusLoaded, appView>>
shimVars == <<browser, mediaDevices, gum, shimPc, gumResult>>
vars == <<entryVars, sqlVars, uiVars, remoteVars, localVars, callVars, queryVars,
          loadVars, shimVars>>
\* what the steps of one part leave alone
notEntryVars == <<sqlVars, uiVars, callVars, queryVars, loadVars, shimVars,
    remoteVars, localVars>>
notSqlVars == <<entryVars, uiVars, callVars, queryVars, loadVars, shimVars,
    remoteVars, localVars>>
notUiVars == <<entryVars, sqlVars, callVars, queryVars, loadVars, shimVars,
    remoteVars, localVars>>
notCallVars == <<entryVars, sqlVars, uiVars, queryVars, loadVars, shimVars,
    remoteVars, localVars>>
notQueryVars == <<entryVars, sqlVars, uiVars, callVars, loadVars, shimVars,
    remoteVars, localVars>>
notLoadVars == <<entryVars, sqlVars, uiVars, callVars, queryVars, shimVars,
    remoteVars, localVars>>
notRemoteVars == <<entryVars, sqlVars, envVars, page, lastReload, viewVars,
                   nameVars, janusVars, offers, pendingSubs, strays, alertVars,
                   faults, callVars, queryVars, loadVars, shimVars, localVars>>
notLocalVars == <<entryVars, sqlVars, envVars, page, lastReload, started, joined,
                  showDetails, showJoinForm, nameVars, janusVars, offers,
                  feedVars, alertVars, faults, remoteVars, callVars, queryVars,
                  loadVars, shimVars>>
notShimVars == <<entryVars, sqlVars, uiVars, callVars, queryVars, loadVars,
    remoteVars, localVars>>

(***************************************************************************)
(* backend/entrypoints.sh                                                  *)
(***************************************************************************)

\* the longest argument list tried
MaxArgs == 2

\* the words tried as arguments; "" is an empty argument
Words == {"help", "bash", "webserver", "payments_checker",
          "", "Help", "webserver ", "--help"}

ArgLists == UNION {[1..n -> Words] : n \in 0..MaxArgs}

\* "$1": the first positional parameter, empty when there is none
Arg1 == IF Len(argv) >= 1 THEN argv[1] ELSE ""

\* the case statement without its default branch
BranchNoDefault(a) ==
    IF a = "help" THEN "help"
    ELSE IF a = "bash" THEN "bash"
    ELSE IF a = "webserver" THEN "webserver"
    ELSE IF a = "payments_checker" THEN "payments_checker"
    ELSE "esac"

\* the case statement with the payments_checker pattern missing
BranchNoPayments(a) ==
    IF a = "help" THEN "help"
    ELSE IF a = "bash" THEN "bash"
    ELSE IF a = "webserver" THEN "webserver"
    ELSE "unknown"

\* case "$1" in ... esac: the branch whose pattern matches first
Branch(a) ==
    IF a = "help" THEN "help"
    ELSE IF a = "bash" THEN "bash"
    ELSE IF a = "webserver" THEN "webserver"
    ELSE IF a = "payments_checker" THEN "payments_checker"
    ELSE "unknown"

\* the echo statements of each branch, in order
UsageLines == << <<"Please use of next parameters to start: ">>,
                 <<"  > webserver: Start webserver">>,
                 <<"  > bash: Start bash shell">> >>

UnknownLine(a) == <<"Unknown command '", a, "'. please use one of: [webserver, bash, help]">>

Echoes(b, a) ==
    CASE b = "help" -> UsageLines
      [] b = "bash" -> << <<"Starting bash ...">> >>
      [] b = "webserver" -> << <<"Starting webserver ...">> >>
      [] b = "payments_checker" -> << <<"Starting payments checker ...">> >>
      [] b = "unknown" -> <<UnknownLine(a)>>
      [] OTHER -> <<>>

\* the command each branch hands to exec, "" when it has none
ExecCommand(b) ==
    CASE b = "bash" -> "bash"
      [] b = "webserver" -> "fastapi dev server.py --host 0.0.0.0"
      [] b = "payments_checker" -> "python payments_checker.py"
      [] OTHER -> ""

InitEntryVars ==
    /\ argv \in ArgLists
    /\ epc = <<"case", 0>>
    /\ stdout = <<>>
    /\ execs = <<>>
    /\ exitStatus = -1

IdleEntryVars ==
    /\ argv = <<>>
    /\ epc = <<"idle", 0>>
    /\ stdout = <<>>
    /\ execs = <<>>
    /\ exitStatus = -1

\* case "$1" in: jump to the matching branch
EntryCase ==
    /\ epc = <<"case", 0>>
    /\ epc' = <<Branch(Arg1), 1>>
    /\ UNCHANGED <<argv, stdout, execs, exitStatus>>
    /\ UNCHANGED notEntryVars

\* the next echo of the branch
EntryEcho ==
    /\ epc[1] \in {"help", "bash", "webserver", "payments_checker", "unknown"}
    /\ epc[2] <= Len(Echoes(epc[1], Arg1))
    /\ stdout' = Append(stdout, Echoes(epc[1], Arg1)[epc[2]])
    /\ epc' = <<epc[1], epc[2] + 1>>
    /\ UNCHANGED <<argv, execs, exitStatus>>
    /\ UNCHANGED notEntryVars

\* exec <command>: the shell is replaced by the command, or, when the command
\* cannot be executed, the non-interactive shell exits with 126 or 127
EntryExec ==
    /\ epc[1] \in {"bash", "webserver", "payments_checker"}
    /\ epc[2] = Len(Echoes(epc[1], Arg1)) + 1
    /\ execs' = Append(execs, ExecCommand(epc[1]))
    /\ \E ok \in BOOLEAN, st \in {126, 127} :
         IF ok THEN /\ epc' = <<"replaced", 0>>
                    /\ UNCHANGED exitStatus
               ELSE /\ epc' = <<"exited", 0>>
                    /\ exitStatus' = st
    /\ UNCHANGED <<argv, stdout>>
    /\ UNCHANGED notEntryVars

\* exit 1 of the default branch
EntryExit ==
    /\ epc[1] = "unknown"
    /\ epc[2] = Len(Echoes(epc[1], Arg1)) + 1
    /\ epc' = <<"exited", 0>>
    /\ exitStatus' = 1
    /\ UNCHANGED <<argv, stdout, execs>>
    /\ UNCHANGED notEntryVars

\* ;; of the help branch (or no branch taken): esac is the last statement and
\* the script ends with the status of the last command run, an echo or none
EntryEsac ==
    /\ epc[1] \in {"help", "esac"}
    /\ epc[2] = Len(Echoes(epc[1], Arg1)) + 1
    /\ epc' = <<"exited", 0>>
    /\ exitStatus' = 0
    /\ UNCHANGED <<argv, stdout, execs>>
    /\ UNCHANGED notEntryVars

NextEntry == EntryCase \/ EntryEcho \/ EntryExec \/ EntryExit \/ EntryEsac

EntryDone == epc[1] \in {"exited", "replaced"}

(***************************************************************************)
(* backend/migrations.sql                                                  *)
(***************************************************************************)

TableNames == {"masters", "games", "characters", "audio_files", "video_files",
               "maps", "items", "fog_erace_points"}

\* a column: its name, NOT NULL, whether a value is supplied when the insert
\* names none (serial, DEFAULT), and the table it REFERENCES ("" for none)
Col(n, nn, df, ref) == [name |-> n, notnull |-> nn, hasdefault |-> df, ref |-> ref]

Stamps == {Col("created_at", FALSE, TRUE, ""), Col("updated_at", FALSE, TRUE, "")}

\* the columns each CREATE TABLE declares
Columns(t) ==
    CASE t = "masters" ->
           {Col("id", TRUE, TRUE, "")} \cup Stamps \cup
           {Col("external_id", TRUE, FALSE, "")}
      [] t = "games" ->
           {Col("id", TRUE, TRUE, "")} \cup Stamps \cup
           {Col("name", TRUE, FALSE, ""), Col("external_id", TRUE, FALSE, ""),
            Col("room_id", TRUE, FALSE, ""),
            Col("master_id", TRUE, FALSE, "masters"),
            Col("master_join_link", TRUE, FALSE, ""),
            Col("master_avatar_url", TRUE, FALSE, "")}
      [] t = "characters" ->
           {Col("id", TRUE, TRUE, "")} \cup Stamps \cup
           {Col("external_id", TRUE, FALSE, ""), Col("name", TRUE, FALSE, ""),
            Col("color", TRUE, TRUE, ""),
            Col("game_id", TRUE, FALSE, "games"),
            Col("join_link", TRUE, FALSE, ""), Col("avatar_url", TRUE, FALSE, ""),
            Col("race", TRUE, FALSE, ""),
            Col("x", FALSE, FALSE, ""), Col("y", FALSE, FALSE, ""),
            Col("map_id", FALSE, FALSE, "maps")}
      [] t \in {"audio_files", "video_files"} ->
           {Col("id", TRUE, TRUE, "")} \cup Stamps \cup
           {Col("name", TRUE, FALSE, ""), Col("external_id", TRUE, FALSE, ""),
            Col("game_id", TRUE, FALSE, "games"),
            Col("url", TRUE, FALSE, ""), Col("duration_seconds", TRUE, FALSE, "")}
      [] t = "maps" ->
           {Col("id", TRUE, TRUE, "")} \cup Stamps \cup
           {Col("external_id", TRUE, FALSE, ""),
            Col("game_id", TRUE, FALSE, "games"),
            Col("url", TRUE, FALSE, ""),
            Col("x_center", FALSE, TRUE, ""), Col("y_center", FALSE, TRUE, ""),
            Col("zoom", FALSE, TRUE, "")}
      [] t = "items" ->
           {Col("id", TRUE, TRUE, "")} \cup Stamps \cup
           {Col("external_id", TRUE, FALSE, ""), Col("name", TRUE, FALSE, ""),
            Col("game_id", TRUE, FALSE, "games"),
            Col("map_id", FALSE, FALSE, "games"),
            Col("x", FALSE, FALSE, ""), Col("y", FALSE, FALSE, ""),
            Col("icon_url", TRUE, FALSE, "")}
      [] t = "fog_erace_points" ->
           {Col("created_at", FALSE, TRUE, ""),
            Col("map_id", FALSE, FALSE, "games"),
            Col("x", TRUE, FALSE, ""), Col("y", TRUE, FALSE, ""),
            Col("radius", TRUE, FALSE, "")}

\* the tables a table's REFERENCES clauses name
Referenced(t) == {c.ref : c \in {d \in Columns(t) : d.ref # ""}}

\* the NOT NULL columns an insert has to name
Required(t) == {c.name : c \in {d \in Columns(t) : d.notnull /\ ~d.hasdefault}}

\* the table a column of t REFERENCES, "" for none
RefOf(t, col) ==
    LET cs == {c \in Columns(t) : c.name = col}
    IN  IF cs = {} THEN "" ELSE (CHOOSE c \in cs : TRUE).ref

Create(t) == [kind |-> "create", table |-> t, cols |-> {}, fks |-> {}, nrows |-> 0]
Insert(t, cs, fk, n) == [kind |-> "insert", table |-> t, cols |-> cs, fks |-> fk, nrows |-> n]

\* the statements of the script in file order; of an insert, the columns it
\* names, the values it gives to foreign-key columns and its number of rows
Script ==
    << Create("masters"), Create("games"), Create("characters"),
       Create("audio_files"), Create("video_files"), Create("maps"),
       Create("items"), Create("fog_erace_points"),
       Insert("audio_files",
              {"external_id", "name", "game_id", "url", "duration_seconds"},
              {<<"game_id", 1>>}, 4),
       Insert("video_files",
              {"external_id", "name", "game_id", "url", "duration_seconds"},
              {<<"game_id", 1>>}, 4),
       Insert("masters", {"external_id"}, {}, 1),
       Insert("games", {"external_id", "name", "master_id", "master_join_link"},
              {<<"master_id", 1>>}, 1),
       Insert("characters",
              {"external_id", "name", "game_id", "join_link", "avatar_url", "race"},
              {<<"game_id", 1>>}, 1),
       Insert("maps", {"game_id", "url"}, {<<"game_id", 1>>}, 1),
       Insert("items", {"game_id", "external_id", "name", "icon_url"},
              {<<"game_id", 1>>}, 1),
       Insert("items", {"game_id", "external_id", "name", "icon_url"},
              {<<"game_id", 1>>}, 1) >>

\* a database holds a table only together with the tables it references
Closed(ts) == \A t \in ts : Referenced(t) \subseteq ts

InitSqlVars ==
    /\ dbInitial \in {ts \in SUBSET TableNames : Closed(ts)}
    /\ onErrorStop \in BOOLEAN
    /\ sqlPc = 1
    /\ dbTables = dbInitial
    /\ dbRows = [t \in TableNames |-> {}]
    /\ dbSeq = [t \in TableNames |-> 1]
    /\ sqlFailed = {}
    /\ dbRefs = {}

IdleSqlVars ==
    /\ dbInitial = {}
    /\ onErrorStop = FALSE
    /\ sqlPc = 0
    /\ dbTables = {}
    /\ dbRows = [t \in TableNames |-> {}]
    /\ dbSeq = [t \in TableNames |-> 1]
    /\ sqlFailed = {}
    /\ dbRefs = {}

SqlRunning == sqlPc \in 1..Len(Script)

\* after a failed statement the client goes on or gives the script up
AfterFailure(reasons) ==
    /\ sqlFailed' = sqlFailed \cup {<<sqlPc, reasons>>}
    /\ sqlPc' = IF onErrorStop THEN Len(Script) + 1 ELSE sqlPc + 1

\* CREATE TABLE IF NOT EXISTS t: nothing when t exists, an error when a
\* referenced table does not, and the new table otherwise
ExecCreate ==
    /\ SqlRunning
    /\ Script[sqlPc].kind = "create"
    /\ LET t == Script[sqlPc].table
       IN  IF t \in dbTables
           THEN /\ sqlPc' = sqlPc + 1
                /\ UNCHANGED <<dbTables, sqlFailed>>
           ELSE IF Referenced(t) \subseteq dbTables
           THEN /\ dbTables' = dbTables \cup {t}
                /\ sqlPc' = sqlPc + 1
                /\ UNCHANGED sqlFailed
           ELSE /\ AfterFailure({"undefined_table"})
                /\ UNCHANGED dbTables
    /\ UNCHANGED <<dbInitial, onErrorStop, dbRows, dbSeq, dbRefs>>
    /\ UNCHANGED notSqlVars

\* a foreign-key value a row of t holds in column col
Ref(t, col, v) == [table |-> t, col |-> col, val |-> v]

\* the NOT NULL columns without default an insert leaves out
MissingNotNull(st) == Required(st.table) \ st.cols

\* the foreign keys of an insert whose parent row does not exist
Dangling(st) == {fk \in st.fks : fk[2] \notin dbRows[RefOf(st.table, fk[1])]}

\* insert into t (...) values ...: all rows or none
ExecInsert ==
    /\ SqlRunning
    /\ Script[sqlPc].kind = "insert"
    /\ LET st == Script[sqlPc]
           t == st.table
           reasons == (IF MissingNotNull(st) # {} THEN {"not_null"} ELSE {})
                      \cup (IF Dangling(st) # {} THEN {"foreign_key"} ELSE {})
       IN  IF t \notin dbTables
           THEN /\ AfterFailure({"undefined_table"})
                /\ UNCHANGED <<dbRows, dbSeq, dbRefs>>
           ELSE IF reasons # {}
           THEN /\ AfterFailure(reasons)
                /\ dbSeq' = [dbSeq EXCEPT ![t] = @ + st.nrows]
                /\ UNCHANGED <<dbRows, dbRefs>>
           ELSE /\ dbRows' = [dbRows EXCEPT ![t] = @ \cup (dbSeq[t]..(dbSeq[t] + st.nrows - 1))]
                /\ dbRefs' = dbRefs \cup {Ref(t, fk[1], fk[2]) : fk \in st.fks}
                /\ dbSeq' = [dbSeq EXCEPT ![t] = @ + st.nrows]
                /\ sqlPc' = sqlPc + 1
                /\ UNCHANGED sqlFailed
    /\ UNCHANGED <<dbInitial, onErrorStop, dbTables>>
    /\ UNCHANGED notSqlVars

NextSql == ExecCreate \/ ExecInsert

\* rows a table is given by inserts other than those of the script
MaxRows == 1

\* the columns of t that carry a REFERENCES clause
FkColumns(t) == {c.name : c \in {d \in Columns(t) : d.ref # ""}}

\* the values an insert may give the foreign keys of t: for every such column
\* an id, or 0 for NULL where the column allows it
FkChoices(t) ==
    {f \in [FkColumns(t) -> 0..MaxRows] :
        \A c \in Columns(t) : (c.ref # "" /\ c.notnull) => f[c.name] # 0}

\* the database with all tables as the CREATE TABLE statements declare them,
\* and no rows
InitSchemaVars ==
    /\ dbInitial = TableNames
    /\ onErrorStop = FALSE
    /\ sqlPc = Len(Script) + 1
    /\ dbTables = TableNames
    /\ dbRows = [t \in TableNames |-> {}]
    /\ dbSeq = [t \in TableNames |-> 1]
    /\ sqlFailed = {}
    /\ dbRefs = {}

\* an insert of one row into t that names every NOT NULL column: accepted
\* when each foreign key it gives is the id of a row of the table that the
\* column REFERENCES
InsertAccepted ==
    \E t \in dbTables : \E f \in FkChoices(t) :
        /\ dbSeq[t] <= MaxRows
        /\ \A c \in FkColumns(t) : f[c] # 0 => f[c] \in dbRows[RefOf(t, c)]
        /\ dbRows' = [dbRows EXCEPT ![t] = @ \cup {dbSeq[t]}]
        /\ dbSeq' = [dbSeq EXCEPT ![t] = @ + 1]
        /\ dbRefs' = dbRefs \cup {Ref(t, c, f[c]) : c \in {d \in FkColumns(t) : f[d] # 0}}
        /\ UNCHANGED <<dbInitial, onErrorStop, sqlPc, dbTables, sqlFailed>>
        /\ UNCHANGED notSqlVars

\* an insert that gives a foreign key no row of the referenced table has: the
\* row is rejected, its id is used up
InsertRejected ==
    \E t \in dbTables : \E f \in FkChoices(t) :
        /\ dbSeq[t] <= MaxRows
        /\ \E c \in FkColumns(t) : f[c] # 0 /\ f[c] \notin dbRows[RefOf(t, c)]
        /\ dbSeq' = [dbSeq EXCEPT ![t] = @ + 1]
        /\ UNCHANGED <<dbInitial, onErrorStop, sqlPc, dbTables, dbRows, sqlFailed,
                       dbRefs>>
        /\ UNCHANGED notSqlVars

NextSchema == InsertAccepted \/ InsertRejected

(***************************************************************************)
(* The VideoRoom component: safeAlert                                      *)
(***************************************************************************)

\* window.bootbox / window.toastr: not loaded, working, or throwing when called
Libs == {"absent", "ok", "throws"}

\* the messages the handlers pass to safeAlert
Messages == {"No WebRTC support... ", "Error attaching plugin... ",
             "The room has been destroyed", "session error", "room error",
             "WebRTC error... ", "subscriber error"}

Show(ch) == [op |-> "show", ch |-> ch]
Hand(ch) == [op |-> "hand", ch |-> ch]
IsShow(e) == e.op = "show"
IsHand(e) == e.op = "hand"

\* the fallback without its setTimeout
FallbackNoCallback(cb) == <<Show("alert")>>

\* alert(message); if (callback) setTimeout(callback, 100)
Fallback(cb) == <<Show("alert")>> \o (IF cb THEN <<Hand("timer")>> ELSE <<>>)

\* the try block of safeAlert: what it did, and whether it threw.  A library
\* call that throws has shown nothing and has taken no callback.
TryAlert(bb, ts, cb) ==
    IF bb # "absent"
    THEN IF bb = "throws"
         THEN [eff |-> <<>>, threw |-> TRUE]
         ELSE [eff |-> <<Show("bootbox")>> \o (IF cb THEN <<Hand("bootbox")>> ELSE <<>>),
               threw |-> FALSE]
    ELSE IF ts # "absent"
    THEN IF ts = "throws"
         THEN [eff |-> <<>>, threw |-> TRUE]
         ELSE [eff |-> <<Show("toastr")>> \o (IF cb THEN <<Hand("timer")>> ELSE <<>>),
               threw |-> FALSE]
    ELSE [eff |-> Fallback(cb), threw |-> FALSE]

\* safeAlert scheduling the callback of its fallback before the message
safeAlertHandsFirst(bb, ts, cb) ==
    LET t == TryAlert(bb, ts, cb)
    IN  IF t.threw
        THEN (IF cb THEN <<Hand("timer")>> ELSE <<>>) \o <<Show("alert")>>
        ELSE t.eff

\* safeAlert(message, callback): what is shown on which channel and who is
\* handed the callback, in order; cb says whether a callback was supplied
safeAlert(bb, ts, cb) ==
    LET t == TryAlert(bb, ts, cb)
    IN  IF t.threw THEN t.eff \o Fallback(cb) ELSE t.eff

IdleCallVars ==
    /\ alertCall = [st |-> "idle", bb |-> "absent", ts |-> "absent", cb |-> FALSE,
                    msg |-> "none"]
    /\ alertEff = <<>>

\* a call of safeAlert with any message, with or without callback, whatever
\* the libraries do
InitCallVars ==
    /\ alertCall \in [st : {"called"}, bb : Libs, ts : Libs, cb : BOOLEAN, msg : Messages]
    /\ alertEff = <<>>

SafeAlertReturns ==
    /\ alertCall.st = "called"
    /\ alertCall' = [alertCall EXCEPT !.st = "returned"]
    /\ alertEff' = safeAlert(alertCall.bb, alertCall.ts, alertCall.cb)
    /\ UNCHANGED notCallVars

NextAlert == SafeAlertReturns

(***************************************************************************)
(* The VideoRoom component: the page                                       *)
(***************************************************************************)

\* Janus sessions created on one page
MaxSessions == 1
\* join requests awaiting their answer on one handle
MaxJoins == 1
\* createOffer calls on one page
MaxOffers == 2
\* failures the environment produces on one page, those of createOffer apart:
\* MaxOffers bounds them
MaxFaults == 1
\* subscriber handles alive at a time
MaxSubs == 6
\* subscriber handles with a request or an answer in flight at a time
MaxPending == 1
\* the remote publishers are 1..MaxPub
MaxPub == 1
\* the longest publishers list of a message
MaxList == 1

\* the feeds array and the slots the loops go through, 1 .. SlotLimit - 1
FeedsLen == 6
SlotLimit == 6

Usernames == {"", "bob", "b<"}
Publishers == 1..MaxPub
Slots == 1..(SlotLimit - 1)
\* a publishers list: each entry an id and the dummy flag
PubLists == UNION {[1..n -> [id : Publishers, dummy : BOOLEAN]] : n \in 0..MaxList}

NoAlertYet == [msg |-> "none", shows |-> 0]
NoReload == [cause |-> "none", msg |-> "none"]
\* null in the feeds array
NoFeed == [rfid |-> 0, answer |-> "none", session |-> 0]

\* a call safeAlert(msg, callback) in a handler, cb saying whether the reload
\* callback is passed: the message shown, and the callback held by whoever
\* safeAlert handed it to
Alert(msg, cb) ==
    \E bb \in Libs, ts \in Libs :
        LET eff == safeAlert(bb, ts, cb)
        IN  /\ lastAlert' = [msg |-> msg, shows |-> Len(SelectSeq(eff, IsShow))]
            /\ pendingReloads' = pendingReloads \cup
                   {[via |-> eff[k].ch, msg |-> msg,
                     shown |-> \E j \in 1..(k - 1) : IsShow(eff[j])]
                      : k \in {i \in 1..Len(eff) : IsHand(eff[i])}}

Session(st) == [st |-> st, joins |-> 0, room |-> "out"]
Offer(audio) == [audio |-> audio, st |-> "pending"]

\* the state of a freshly loaded page
FreshPage ==
    /\ page = "loaded"
    /\ started = FALSE
    /\ joined = FALSE
    /\ showDetails = TRUE
    /\ showJoinForm = FALSE
    /\ showVideos = FALSE
    /\ username = ""
    /\ myUsername = "null"
    /\ sessions = <<>>
    /\ sfutest = 0
    /\ janusRef = 0
    /\ offers = <<>>
    /\ pendingSubs = <<>>
    /\ feeds = [i \in 0..(FeedsLen - 1) |-> NoFeed]
    /\ strays = {}
    /\ lastAlert = NoAlertYet
    /\ pendingReloads = {}
    /\ faults = 0

InitUiVars ==
    /\ subscriberMode \in BOOLEAN
    /\ webrtc \in BOOLEAN
    /\ lastReload = NoReload
    /\ FreshPage

IdleUiVars ==
    /\ subscriberMode = FALSE
    /\ webrtc = FALSE
    /\ lastReload = NoReload
    /\ FreshPage

Loaded == page = "loaded"
CanFail == faults < MaxFaults
Live(s) == sessions[s].st \in {"creating", "attaching", "attached", "failed"}

\* window.location.reload(): the page is gone with all its state
Unload(cause, msg) ==
    /\ page' = "unloaded"
    /\ lastReload' = [cause |-> cause, msg |-> msg]
    /\ started' = FALSE
    /\ joined' = FALSE
    /\ showDetails' = TRUE
    /\ showJoinForm' = FALSE
    /\ showVideos' = FALSE
    /\ username' = ""
    /\ myUsername' = "null"
    /\ sessions' = <<>>
    /\ sfutest' = 0
    /\ janusRef' = 0
    /\ offers' = <<>>
    /\ pendingSubs' = <<>>
    /\ feeds' = [i \in 0..(FeedsLen - 1) |-> NoFeed]
    /\ strays' = {}
    /\ lastAlert' = NoAlertYet
    /\ pendingReloads' = {}
    /\ faults' = 0
    /\ UNCHANGED envVars
    /\ UNCHANGED notUiVars

\* the browser loads the page again
PageLoad ==
    /\ page = "unloaded"
    /\ page' = "loaded"
    /\ lastReload' = NoReload
    /\ UNCHANGED <<envVars, viewVars, nameVars, janusVars, offers, feedVars,
                   alertVars, faults>>
    /\ UNCHANGED notUiVars

\* the Start button, shown while not started
handleStart ==
    /\ Loaded
    /\ ~started
    /\ IF ~webrtc
       THEN /\ Alert("No WebRTC support... ", FALSE)
            /\ UNCHANGED <<started, sessions>>
       ELSE /\ Len(sessions) < MaxSessions
            /\ started' = TRUE
            /\ sessions' = Append(sessions, Session("creating"))
            /\ UNCHANGED alertVars
    /\ UNCHANGED <<envVars, page, lastReload, joined, showDetails, showJoinForm,
                   showVideos, nameVars, sfutest, janusRef, offers, feedVars, faults>>
    /\ UNCHANGED notUiVars

\* new Janus({success}): the session is up, the plugin attach is requested
SessionSuccess ==
    \E s \in 1..Len(sessions) :
        /\ Loaded
        /\ sessions[s].st = "creating"
        /\ sessions' = [sessions EXCEPT ![s].st = "attaching"]
        /\ UNCHANGED <<envVars, page, lastReload, viewVars, nameVars, sfutest,
                       janusRef, offers, feedVars, alertVars, faults>>
        /\ UNCHANGED notUiVars

\* new Janus({error}): the session could not be created or was lost
SessionError ==
    \E s \in 1..Len(sessions) :
        /\ Loaded
        /\ CanFail
        /\ Live(s)
        /\ faults' = faults + 1
        /\ sessions' = [sessions EXCEPT ![s].st = "dead"]
        /\ Alert("session error", TRUE)
        /\ started' = FALSE
        /\ UNCHANGED <<envVars, page, lastReload, joined, showDetails, showJoinForm,
                       showVideos, nameVars, sfutest, janusRef, offers, feedVars>>
        /\ UNCHANGED notUiVars

\* new Janus({destroyed}): the session handleStop destroyed is gone
SessionDestroyed ==
    \E s \in 1..Len(sessions) :
        /\ Loaded
        /\ sessions[s].st = "destroying"
        /\ Unload("destroyed", "none")

\* janus.attach({success}) of the publisher handle
AttachSuccess ==
    \E s \in 1..Len(sessions) :
        /\ Loaded
        /\ sessions[s].st = "attaching"
        /\ sessions' = [sessions EXCEPT ![s].st = "attached"]
        /\ sfutest' = s
        /\ janusRef' = s
        /\ showDetails' = FALSE
        /\ showJoinForm' = TRUE
        /\ UNCHANGED <<envVars, page, lastReload, started, joined, showVideos,
                       nameVars, offers, feedVars, alertVars, faults>>
        /\ UNCHANGED notUiVars

\* janus.attach({error}) of the publisher handle
AttachError ==
    \E s \in 1..Len(sessions) :
        /\ Loaded
        /\ CanFail
        /\ sessions[s].st = "attaching"
        /\ faults' = faults + 1
        /\ sessions' = [sessions EXCEPT ![s].st = "failed"]
        /\ Alert("Error attaching plugin... ", FALSE)
        /\ started' = FALSE
        /\ UNCHANGED <<envVars, page, lastReload, joined, showDetails, showJoinForm,
                       showVideos, nameVars, sfutest, janusRef, offers, feedVars>>
        /\ UNCHANGED notUiVars

\* the Stop button, shown while started
handleStop ==
    /\ Loaded
    /\ started
    /\ sessions' = IF janusRef # 0 /\ Live(janusRef)
                   THEN [sessions EXCEPT ![janusRef].st = "destroying"]
                   ELSE sessions
    /\ started' = FALSE
    /\ joined' = FALSE
    /\ showDetails' = TRUE
    /\ showJoinForm' = FALSE
    /\ showVideos' = FALSE
    /\ UNCHANGED <<envVars, page, lastReload, nameVars, sfutest, janusRef, offers,
                   feedVars, alertVars, faults>>
    /\ UNCHANGED notUiVars

\* typing into the display-name field of the join form
setUsername ==
    \E u \in Usernames :
        /\ Loaded
        /\ showJoinForm
        /\ u # username
        /\ username' = u
        /\ UNCHANGED <<envVars, page, lastReload, viewVars, myUsername, janusVars,
                       offers, feedVars, alertVars, faults>>
        /\ UNCHANGED notUiVars

\* the test of handleRegister letting every name through
AnyNameGoes(u) == FALSE

\* /[^a-zA-Z0-9]/.test(username)
NotAlphanumeric(u) == u = "b<"

\* escapeXmlTags
escapeXmlTags(u) == IF u = "b<" THEN "b&lt" ELSE u

\* sfutestRef.current?.send(...) reaches a publisher handle that is there
CanSend == sfutest # 0 /\ sessions[sfutest].st = "attached"

\* the Join button or Enter in the join form
handleRegister ==
    /\ Loaded
    /\ showJoinForm
    /\ IF username = ""
       THEN UNCHANGED <<nameVars, sessions>>
       ELSE IF NotAlphanumeric(username)
       THEN /\ username' = ""
            /\ UNCHANGED <<myUsername, sessions>>
       ELSE /\ myUsername' = escapeXmlTags(username)
            /\ CanSend => sessions[sfutest].joins < MaxJoins
            /\ sessions' = IF CanSend
                           THEN [sessions EXCEPT ![sfutest].joins = @ + 1]
                           ELSE sessions
            /\ UNCHANGED username
    /\ UNCHANGED <<envVars, page, lastReload, viewVars, sfutest, janusRef, offers,
                   feedVars, alertVars, faults>>
    /\ UNCHANGED notUiVars

\* publishOwnFeed asking for audio whatever useAudio says
publishWithAudio(ofs, useAudio) ==
    IF sfutest = 0 THEN ofs ELSE Append(ofs, Offer(TRUE))

\* publishOwnFeed(useAudio): the offers after its createOffer on the
\* publisher handle
publishOwnFeed(ofs, useAudio) ==
    IF sfutest = 0 THEN ofs ELSE Append(ofs, Offer(useAudio))

\* the subscriber handles alive, and those with a request or an answer in
\* flight
Occupied(fs) == {i \in 1..(FeedsLen - 1) : fs[i] # NoFeed}
Alive == Cardinality(Occupied(feeds)) + Len(pendingSubs) + Cardinality(strays)
InFlight ==
    Len(pendingSubs)
    + Cardinality({i \in Occupied(feeds) : feeds[i].answer = "pending"})
    + Cardinality({f \in strays : f.answer = "pending"})

Lowest(S) == CHOOSE x \in S : \A y \in S : x <= y

\* newRemoteFeed(id, ...): a plugin attach for a new remoteFeed object
newRemoteFeed(ps, id) ==
    IF janusRef = 0 THEN ps
    ELSE Append(ps, [rfid |-> id, st |-> "attaching", session |-> janusRef])

\* for (let f in list): newRemoteFeed for every entry that is no dummy
RECURSIVE NewFeeds(_, _)
NewFeeds(ps, list) ==
    IF list = <<>> THEN ps
    ELSE IF Head(list).dummy THEN NewFeeds(ps, Tail(list))
    ELSE NewFeeds(newRemoteFeed(ps, Head(list).id), Tail(list))

\* the handles a publishers list may need are there
RoomFor(list) ==
    /\ Alive + Len(list) <= MaxSubs
    /\ InFlight + Len(list) <= MaxPending

\* removeRemoteFeed(id): the feeds array with the first slot that holds a
\* feed of publisher id emptied, its handle detached with it
removeRemoteFeed(fs, id) ==
    LET hit == {i \in Slots : fs[i] # NoFeed /\ fs[i].rfid = id}
    IN  IF hit = {} THEN fs ELSE [fs EXCEPT ![Lowest(hit)] = NoFeed]

\* onmessage of the publisher handle, videoroom = "joined"
PubJoined ==
    \E s \in 1..Len(sessions), list \in PubLists :
        /\ Loaded
        /\ sessions[s].st = "attached"
        /\ sessions[s].joins > 0
        /\ sessions[s].room = "out"
        /\ Len(offers) + 2 <= MaxOffers
        /\ RoomFor(list)
        /\ sessions' = [sessions EXCEPT ![s].joins = @ - 1, ![s].room = "in"]
        /\ joined' = TRUE
        /\ IF subscriberMode
           THEN /\ showJoinForm' = FALSE
                /\ showVideos' = TRUE
                /\ UNCHANGED offers
           ELSE /\ offers' = publishOwnFeed(offers, TRUE)
                /\ UNCHANGED <<showJoinForm, showVideos>>
        /\ pendingSubs' = NewFeeds(pendingSubs, list)
        /\ UNCHANGED <<envVars, page, lastReload, started, showDetails, nameVars,
                       sfutest, janusRef, feeds, strays, alertVars, faults>>
        /\ UNCHANGED notUiVars

\* onmessage of the publisher handle, videoroom = "event" with an error
PubError ==
    \E s \in 1..Len(sessions) :
        /\ Loaded
        /\ CanFail
        /\ sessions[s].st = "attached"
        /\ sessions[s].joins > 0
        /\ faults' = faults + 1
        /\ sessions' = [sessions EXCEPT ![s].joins = @ - 1]
        /\ Alert("room error", FALSE)
        /\ UNCHANGED <<envVars, page, lastReload, viewVars, nameVars, sfutest,
                       janusRef, offers, feedVars>>
        /\ UNCHANGED notUiVars

\* onmessage of the publisher handle, videoroom = "destroyed"
PubDestroyed ==
    \E s \in 1..Len(sessions) :
        /\ Loaded
        /\ CanFail
        /\ sessions[s].st = "attached"
        /\ sessions[s].room = "in"
        /\ faults' = faults + 1
        /\ sessions' = [sessions EXCEPT ![s].room = "gone"]
        /\ Alert("The room has been destroyed", TRUE)
        /\ UNCHANGED <<envVars, page, lastReload, viewVars, nameVars, sfutest,
                       janusRef, offers, feedVars>>
        /\ UNCHANGED notUiVars

\* onmessage of the publisher handle, videoroom = "event" with publishers
PubPublishers ==
    \E s \in 1..Len(sessions), list \in PubLists :
        /\ Loaded
        /\ sessions[s].st = "attached"
        /\ sessions[s].room = "in"
        /\ list # <<>>
        /\ RoomFor(list)
        /\ pendingSubs' = NewFeeds(pendingSubs, list)
        /\ UNCHANGED <<envVars, page, lastReload, viewVars, nameVars, janusVars,
                       offers, feeds, strays, alertVars, faults>>
        /\ UNCHANGED notUiVars

\* onmessage of the publisher handle, videoroom = "event" with leaving
PubLeaving ==
    \E s \in 1..Len(sessions), id \in Publishers :
        /\ Loaded
        /\ sessions[s].st = "attached"
        /\ sessions[s].room = "in"
        /\ feeds' = removeRemoteFeed(feeds, id)
        /\ UNCHANGED <<envVars, page, lastReload, viewVars, nameVars, janusVars,
                       offers, pendingSubs, strays, alertVars, faults>>
        /\ UNCHANGED notUiVars

\* onmessage of the publisher handle, videoroom = "event" with unpublished,
\* of a remote publisher
PubUnpublished ==
    \E s \in 1..Len(sessions), id \in Publishers :
        /\ Loaded
        /\ sessions[s].st = "attached"
        /\ sessions[s].room = "in"
        /\ feeds' = removeRemoteFeed(feeds, id)
        /\ UNCHANGED <<envVars, page, lastReload, viewVars, nameVars, janusVars,
                       offers, pendingSubs, strays, alertVars, faults>>
        /\ UNCHANGED notUiVars

\* createOffer({success}): the configure request goes out with the offer
OfferSuccess ==
    \E i \in 1..Len(offers) :
        /\ Loaded
        /\ offers[i].st = "pending"
        /\ offers' = [offers EXCEPT ![i].st = "configured"]
        /\ UNCHANGED <<envVars, page, lastReload, viewVars, nameVars, janusVars,
                       feedVars, alertVars, faults>>
        /\ UNCHANGED notUiVars

\* createOffer({error}): once more without audio, or the error message
OfferError ==
    \E i \in 1..Len(offers) :
        /\ Loaded
        /\ offers[i].st = "pending"
        /\ IF offers[i].audio
           THEN /\ offers' = publishOwnFeed([offers EXCEPT ![i].st = "failed"], FALSE)
                /\ UNCHANGED alertVars
           ELSE /\ offers' = [offers EXCEPT ![i].st = "failed"]
                /\ Alert("WebRTC error... ", FALSE)
        /\ UNCHANGED <<envVars, page, lastReload, viewVars, nameVars, janusVars,
                       feedVars, faults>>
        /\ UNCHANGED notUiVars

\* onlocaltrack(track, on = true) of the publisher handle: a track of the
\* media captured for a createOffer
OnLocalTrack ==
    \E i \in 1..Len(offers) :
        /\ Loaded
        /\ offers[i].st \in {"pending", "configured"}
        /\ sfutest # 0
        /\ Live(sfutest)
        /\ showVideos' = TRUE
        /\ UNCHANGED <<envVars, page, lastReload, started, joined, showDetails,
                       showJoinForm, nameVars, janusVars, offers, feedVars,
                       alertVars, faults>>
        /\ UNCHANGED notUiVars

\* the callbacks of a handle attached on session s can run
SubLive(s) == s \in 1..Len(sessions) /\ Live(s)

Without(ps, k) == SubSeq(ps, 1, k - 1) \o SubSeq(ps, k + 1, Len(ps))

\* janus.attach({success}) of newRemoteFeed: the subscriber join is sent
SubAttachSuccess ==
    \E k \in 1..Len(pendingSubs) :
        /\ Loaded
        /\ pendingSubs[k].st = "attaching"
        /\ SubLive(pendingSubs[k].session)
        /\ pendingSubs' = [pendingSubs EXCEPT ![k].st = "joining"]
        /\ UNCHANGED <<envVars, page, lastReload, viewVars, nameVars, janusVars,
                       offers, feeds, strays, alertVars, faults>>
        /\ UNCHANGED notUiVars

\* janus.attach({error}) of newRemoteFeed
SubAttachError ==
    \E k \in 1..Len(pendingSubs) :
        /\ Loaded
        /\ pendingSubs[k].st = "attaching"
        /\ CanFail
        /\ faults' = faults + 1
        /\ pendingSubs' = Without(pendingSubs, k)
        /\ Alert("Error attaching plugin... ", FALSE)
        /\ UNCHANGED <<envVars, page, lastReload, viewVars, nameVars, janusVars,
                       offers, feeds, strays>>
        /\ UNCHANGED notUiVars

Feed(sub) == [rfid |-> sub.rfid, answer |-> "pending", session |-> sub.session]

\* the slot loop giving the last slot away when none is empty
SlotForEvict(fs) ==
    LET free == {i \in 1..(SlotLimit - 1) : fs[i] = NoFeed}
    IN  IF free = {} THEN SlotLimit - 1 ELSE Lowest(free)

\* the slot loop going down from the last slot
SlotForHighest(fs) ==
    LET free == {i \in 1..(SlotLimit - 1) : fs[i] = NoFeed}
    IN  IF free = {} THEN 0 ELSE CHOOSE x \in free : \A y \in free : y <= x

\* for (let i = 1; i < 6; i++) if (!newFeeds[i]) ...: the slot a new remote
\* feed is given, 0 when the loop ends without one
SlotFor(fs) ==
    LET free == {i \in 1..(SlotLimit - 1) : fs[i] = NoFeed}
    IN  IF free = {} THEN 0 ELSE Lowest(free)

\* onmessage of a subscriber handle, videoroom = "attached": the remote feed
\* takes the slot found for it, if any, and the offer that came with the
\* message is answered
SubAttached ==
    \E k \in 1..Len(pendingSubs) :
        /\ Loaded
        /\ pendingSubs[k].st = "joining"
        /\ SubLive(pendingSubs[k].session)
        /\ pendingSubs' = Without(pendingSubs, k)
        /\ IF SlotFor(feeds) = 0
           THEN /\ strays' = strays \cup {Feed(pendingSubs[k])}
                /\ UNCHANGED feeds
           ELSE /\ feeds' = [feeds EXCEPT ![SlotFor(feeds)] = Feed(pendingSubs[k])]
                /\ UNCHANGED strays
        /\ UNCHANGED <<envVars, page, lastReload, viewVars, nameVars, janusVars,
                       offers, alertVars, faults>>
        /\ UNCHANGED notUiVars

\* onmessage of a subscriber handle with an error
SubError ==
    \E k \in 1..Len(pendingSubs) :
        /\ Loaded
        /\ pendingSubs[k].st = "joining"
        /\ SubLive(pendingSubs[k].session)
        /\ CanFail
        /\ faults' = faults + 1
        /\ pendingSubs' = Without(pendingSubs, k)
        /\ strays' = strays \cup {[Feed(pendingSubs[k]) EXCEPT !.answer = "none"]}
        /\ Alert("subscriber error", FALSE)
        /\ UNCHANGED <<envVars, page, lastReload, viewVars, nameVars, janusVars,
                       offers, feeds>>
        /\ UNCHANGED notUiVars

\* createAnswer({success}) of a feed in a slot: the start request goes out
AnswerSuccess ==
    \E i \in Slots :
        /\ Loaded
        /\ feeds[i] # NoFeed
        /\ feeds[i].answer = "pending"
        /\ SubLive(feeds[i].session)
        /\ feeds' = [feeds EXCEPT ![i].answer = "started"]
        /\ UNCHANGED <<envVars, page, lastReload, viewVars, nameVars, janusVars,
                       offers, pendingSubs, strays, alertVars, faults>>
        /\ UNCHANGED notUiVars

\* createAnswer({error}) of a feed in a slot
AnswerError ==
    \E i \in Slots :
        /\ Loaded
        /\ feeds[i] # NoFeed
        /\ feeds[i].answer = "pending"
        /\ CanFail
        /\ faults' = faults + 1
        /\ feeds' = [feeds EXCEPT ![i].answer = "failed"]
        /\ Alert("WebRTC error... ", FALSE)
        /\ UNCHANGED <<envVars, page, lastReload, viewVars, nameVars, janusVars,
                       offers, pendingSubs, strays>>
        /\ UNCHANGED notUiVars

\* createAnswer({success}) of a feed that has no slot
StrayAnswerSuccess ==
    \E f \in strays :
        /\ Loaded
        /\ f.answer = "pending"
        /\ SubLive(f.session)
        /\ strays' = (strays \ {f}) \cup {[f EXCEPT !.answer = "started"]}
        /\ UNCHANGED <<envVars, page, lastReload, viewVars, nameVars, janusVars,
                       offers, pendingSubs, feeds, alertVars, faults>>
        /\ UNCHANGED notUiVars

\* createAnswer({error}) of a feed that has no slot
StrayAnswerError ==
    \E f \in strays :
        /\ Loaded
        /\ f.answer = "pending"
        /\ CanFail
        /\ faults' = faults + 1
        /\ strays' = (strays \ {f}) \cup {[f EXCEPT !.answer = "failed"]}
        /\ Alert("WebRTC error... ", FALSE)
        /\ UNCHANGED <<envVars, page, lastReload, viewVars, nameVars, janusVars,
                       offers, pendingSubs, feeds>>
        /\ UNCHANGED notUiVars

\* a reload callback runs: the modal is dismissed or the timer fires
ReloadCallback ==
    \E p \in pendingReloads :
        /\ Loaded
        /\ Unload(p.via, p.msg)

Next ==
    \/ PageLoad
    \/ handleStart
    \/ handleStop
    \/ handleRegister
    \/ setUsername
    \/ SessionSuccess
    \/ SessionError
    \/ SessionDestroyed
    \/ AttachSuccess
    \/ AttachError
    \/ PubJoined
    \/ PubError
    \/ PubDestroyed
    \/ PubPublishers
    \/ PubLeaving
    \/ PubUnpublished
    \/ OfferSuccess
    \/ OfferError
    \/ OnLocalTrack
    \/ SubAttachSuccess
    \/ SubAttachError
    \/ SubAttached
    \/ SubError
    \/ AnswerSuccess
    \/ AnswerError
    \/ StrayAnswerSuccess
    \/ StrayAnswerError
    \/ ReloadCallback

(***************************************************************************)
(* The VideoRoom component: the remote feeds one by one                    *)
(*                                                                         *)
(* The publisher is in the room.  Every newRemoteFeed call has its own     *)
(* remoteFeed object and subscriber handle, and an entry of the feeds      *)
(* array carries the fields the callbacks of the handles write.            *)
(***************************************************************************)

\* the remote publishers that come and go are 1..MaxRemote
MaxRemote == 2
\* newRemoteFeed calls
MaxFeeds == 2
\* 'event' messages and tracks delivered to the subscriber handles
MaxCallbacks == 2

RemoteIds == 1..MaxRemote
\* how many slots are held from the start, by feeds of publishers that stay
\* and whose handles deliver nothing further
Residents == {0, 4, 5}
ResidentId(i) == 100 + i
Mids == {0}
TrackKinds == {"audio", "video"}
\* a publishers list of an 'event' message
RemoteLists == UNION {[1..n -> [id : RemoteIds, dummy : BOOLEAN]] : n \in 1..MaxList}

\* the remoteFeed object of newRemoteFeed(id, ...); rfindex 0 for null, and
\* handle for where its plugin handle is: "attaching", "joining" once attached
\* and the join sent, "subscribed", "detaching" once detach() was called and
\* "detached" once the server has let go of it
remoteFeed(id) ==
    [rfid |-> id, rfindex |-> 0, handle |-> "attaching", remoteTracks |-> {},
     remoteVideos |-> 0, simulcastStarted |-> FALSE, svcStarted |-> FALSE]

\* the entry of the feeds array for the remoteFeed object numbered k: the
\* object itself while alias holds, a copy of it made by an updater after
EntryOf(k, rf, alias) ==
    [rfid |-> rf.rfid, feed |-> k, alias |-> alias,
     remoteTracks |-> rf.remoteTracks, remoteVideos |-> rf.remoteVideos,
     simulcastStarted |-> rf.simulcastStarted, svcStarted |-> rf.svcStarted]

\* the entry of a feed that holds its slot from the start
ResidentEntry(i) == EntryOf(0, remoteFeed(ResidentId(i)), TRUE)

InRoom ==
    /\ subscriberMode = TRUE
    /\ webrtc = TRUE
    /\ page = "loaded"
    /\ lastReload = NoReload
    /\ started = TRUE
    /\ joined = TRUE
    /\ showDetails = FALSE
    /\ showJoinForm = FALSE
    /\ showVideos = TRUE
    /\ username = "bob"
    /\ myUsername = "bob"
    /\ sessions = <<[Session("attached") EXCEPT !.room = "in"]>>
    /\ sfutest = 1
    /\ janusRef = 1
    /\ offers = <<>>
    /\ pendingSubs = <<>>
    /\ strays = {}
    /\ lastAlert = NoAlertYet
    /\ pendingReloads = {}
    /\ faults = 0

InitRemoteVars ==
    /\ InRoom
    /\ \E n \in Residents :
         /\ feeds = [i \in 0..(FeedsLen - 1) |->
                       IF i \in 1..n THEN ResidentEntry(i) ELSE NoFeed]
         /\ feedStreams = {ResidentId(i) : i \in 1..n}
    /\ remoteFeeds = <<>>
    /\ callbacks = <<>>

IdleRemoteVars ==
    /\ feedStreams = {}
    /\ remoteFeeds = <<>>
    /\ callbacks = <<>>

\* setFeedStreams(prev => ({...prev, [id]: streamList})) and
\* newRemoteFeed(id, ...) for every entry of the list that is no dummy
RECURSIVE Announced(_, _)
Announced(fs, list) ==
    IF list = <<>> THEN fs
    ELSE IF Head(list).dummy THEN Announced(fs, Tail(list))
    ELSE Announced(fs \cup {Head(list).id}, Tail(list))

RECURSIVE NewRemoteFeeds(_, _)
NewRemoteFeeds(rfs, list) ==
    IF list = <<>> THEN rfs
    ELSE IF Head(list).dummy \/ janusRef = 0 THEN NewRemoteFeeds(rfs, Tail(list))
    ELSE NewRemoteFeeds(Append(rfs, remoteFeed(Head(list).id)), Tail(list))

\* onmessage of the publisher handle, videoroom = "event" with publishers
RemotePublishers ==
    \E list \in RemoteLists :
        /\ Len(remoteFeeds) + Len(list) <= MaxFeeds
        /\ feedStreams' = Announced(feedStreams, list)
        /\ remoteFeeds' = NewRemoteFeeds(remoteFeeds, list)
        /\ UNCHANGED <<feeds, callbacks>>
        /\ UNCHANGED notRemoteVars

\* janus.attach({success}) of newRemoteFeed: the handle is kept in the
\* remoteFeed object and the subscriber join is sent
RemoteAttachSuccess ==
    \E k \in 1..Len(remoteFeeds) :
        /\ remoteFeeds[k].handle = "attaching"
        /\ remoteFeeds' = [remoteFeeds EXCEPT ![k].handle = "joining"]
        /\ UNCHANGED <<feeds, feedStreams, callbacks>>
        /\ UNCHANGED notRemoteVars

\* onmessage of a subscriber handle, videoroom = "attached": the slot loop
RemoteAttached ==
    \E k \in 1..Len(remoteFeeds) :
        /\ remoteFeeds[k].handle = "joining"
        /\ LET i == SlotFor(feeds)
               rf == [remoteFeeds[k] EXCEPT !.handle = "subscribed",
                                            !.rfindex = IF i = 0 THEN @ ELSE i]
           IN  /\ remoteFeeds' = [remoteFeeds EXCEPT ![k] = rf]
               /\ feeds' = IF i = 0 THEN feeds
                           ELSE [feeds EXCEPT ![i] = EntryOf(k, rf, TRUE)]
        /\ UNCHANGED <<feedStreams, callbacks>>
        /\ UNCHANGED notRemoteVars

\* the handle of a remoteFeed object delivers messages and tracks: from
\* 'attached' on, and still after detach() until the server has let go
Delivering(rf) == rf.handle \in {"subscribed", "detaching"}

\* if (newFeeds[remoteFeed.rfindex]) newFeeds[remoteFeed.rfindex] =
\* {...newFeeds[remoteFeed.rfindex], ...}: the entry at the slot the
\* remoteFeed object was given, whatever it holds now, replaced by a copy
\* with the fields written
Holds(fs, index) == index # 0 /\ fs[index] # NoFeed

WithSimulcast(fs, index) ==
    IF Holds(fs, index)
    THEN [fs EXCEPT ![index].simulcastStarted = TRUE, ![index].alias = FALSE]
    ELSE fs

WithSvc(fs, index) ==
    IF Holds(fs, index)
    THEN [fs EXCEPT ![index].svcStarted = TRUE, ![index].alias = FALSE]
    ELSE fs

WithTracks(fs, index, rf) ==
    IF Holds(fs, index)
    THEN [fs EXCEPT ![index].remoteTracks = rf.remoteTracks,
                    ![index].remoteVideos = rf.remoteVideos,
                    ![index].alias = FALSE]
    ELSE fs

\* onmessage of a subscriber handle, videoroom = "event": sim says whether
\* the message has substream or temporal, svc whether it has spatial_layer
\* or temporal_layer
RemoteEvent ==
    \E k \in 1..Len(remoteFeeds), sim \in BOOLEAN, svc \in BOOLEAN :
        /\ Delivering(remoteFeeds[k])
        /\ Len(callbacks) < MaxCallbacks
        /\ callbacks' = Append(callbacks, [feed |-> k, what |-> "event"])
        /\ LET rf == remoteFeeds[k]
               doSim == sim /\ ~rf.simulcastStarted
               doSvc == svc /\ ~rf.svcStarted
               fs1 == IF doSim THEN WithSimulcast(feeds, rf.rfindex) ELSE feeds
           IN  /\ remoteFeeds' =
                     [remoteFeeds EXCEPT
                        ![k].simulcastStarted = @ \/ doSim,
                        ![k].svcStarted = @ \/ doSvc]
               /\ feeds' = IF doSvc THEN WithSvc(fs1, rf.rfindex) ELSE fs1
        /\ UNCHANGED feedStreams
        /\ UNCHANGED notRemoteVars

\* what onremotetrack(track, mid, on) makes of the remoteFeed object
TrackChange(rf, kind, mid, on) ==
    IF ~on
    THEN [rf EXCEPT !.remoteVideos =
                        IF kind = "video" /\ @ > 0 THEN @ - 1 ELSE @,
                    !.remoteTracks = @ \ {mid}]
    ELSE [rf EXCEPT !.remoteVideos = IF kind = "video" THEN @ + 1 ELSE @,
                    !.remoteTracks = @ \cup {mid}]

\* onremotetrack of a subscriber handle
RemoteTrack ==
    \E k \in 1..Len(remoteFeeds), kind \in TrackKinds, mid \in Mids,
       on \in BOOLEAN :
        /\ Delivering(remoteFeeds[k])
        /\ Len(callbacks) < MaxCallbacks
        /\ callbacks' = Append(callbacks, [feed |-> k, what |-> "track"])
        /\ LET rf == TrackChange(remoteFeeds[k], kind, mid, on)
           IN  /\ remoteFeeds' = [remoteFeeds EXCEPT ![k] = rf]
               /\ feeds' = WithTracks(feeds, rf.rfindex, rf)
        /\ UNCHANGED feedStreams
        /\ UNCHANGED notRemoteVars

\* oncleanup of a subscriber handle: the tracks of the remoteFeed object are
\* dropped, which shows in its entry of the feeds array while that entry is
\* the object itself (the bitrate timers are left out)
RemoteCleanup ==
    \E k \in 1..Len(remoteFeeds) :
        /\ Delivering(remoteFeeds[k])
        /\ remoteFeeds[k].remoteTracks # {} \/ remoteFeeds[k].remoteVideos # 0
        /\ LET rf == [remoteFeeds[k] EXCEPT !.remoteTracks = {},
                                            !.remoteVideos = 0]
               i == rf.rfindex
           IN  /\ remoteFeeds' = [remoteFeeds EXCEPT ![k] = rf]
               /\ feeds' = IF /\ Holds(feeds, i)
                              /\ feeds[i].feed = k
                              /\ feeds[i].alias
                           THEN [feeds EXCEPT ![i] = EntryOf(k, rf, TRUE)]
                           ELSE feeds
        /\ UNCHANGED <<feedStreams, callbacks>>
        /\ UNCHANGED notRemoteVars

\* newFeeds[i].handle?.detach() in removeRemoteFeed(id): the handle of the
\* entry removeRemoteFeed empties
Detach(rfs, fs, id) ==
    LET hit == {i \in Slots : fs[i] # NoFeed /\ fs[i].rfid = id}
    IN  IF hit = {} \/ fs[Lowest(hit)].feed = 0 THEN rfs
        ELSE [rfs EXCEPT ![fs[Lowest(hit)].feed].handle = "detaching"]

\* onmessage of the publisher handle, videoroom = "event" with leaving
RemoteLeaving ==
    \E id \in RemoteIds :
        /\ feeds' = removeRemoteFeed(feeds, id)
        /\ remoteFeeds' = Detach(remoteFeeds, feeds, id)
        /\ feedStreams' = feedStreams \ {id}
        /\ UNCHANGED callbacks
        /\ UNCHANGED notRemoteVars

\* onmessage of the publisher handle, videoroom = "event" with unpublished,
\* of a remote publisher
RemoteUnpublished ==
    \E id \in RemoteIds :
        /\ feeds' = removeRemoteFeed(feeds, id)
        /\ remoteFeeds' = Detach(remoteFeeds, feeds, id)
        /\ feedStreams' = feedStreams \ {id}
        /\ UNCHANGED callbacks
        /\ UNCHANGED notRemoteVars

\* the server has let go of a handle detach() was called on
RemoteDetached ==
    \E k \in 1..Len(remoteFeeds) :
        /\ remoteFeeds[k].handle = "detaching"
        /\ remoteFeeds' = [remoteFeeds EXCEPT ![k].handle = "detached"]
        /\ UNCHANGED <<feeds, feedStreams, callbacks>>
        /\ UNCHANGED notRemoteVars

NextRemote ==
    \/ RemotePublishers
    \/ RemoteAttachSuccess
    \/ RemoteAttached
    \/ RemoteEvent
    \/ RemoteTrack
    \/ RemoteCleanup
    \/ RemoteLeaving
    \/ RemoteUnpublished
    \/ RemoteDetached

(***************************************************************************)
(* The VideoRoom component: the local tracks of the publisher handle       *)
(*                                                                         *)
(* The publisher has joined and its first createOffer is under way.        *)
(***************************************************************************)

\* the local tracks are 1..MaxTracks
MaxTracks == 3
\* onlocaltrack calls
MaxLocalCalls == 5

\* track.kind and track.id: the odd tracks are video, and the browser may
\* put an id in braces
KindOf(i) == IF i % 2 = 1 THEN "video" ELSE "audio"
LocalTrackArgs == [id : 1..MaxTracks, braces : BOOLEAN, on : BOOLEAN]
\* track.id.replace(/[{}]/g, "")
TrackId(track) == track.id
NoLocalCall == [id |-> 0, braces |-> FALSE, on |-> FALSE]

Publishing ==
    /\ subscriberMode = FALSE
    /\ webrtc = TRUE
    /\ page = "loaded"
    /\ lastReload = NoReload
    /\ started = TRUE
    /\ joined = TRUE
    /\ showDetails = FALSE
    /\ showJoinForm = TRUE
    /\ showVideos = FALSE
    /\ username = "bob"
    /\ myUsername = "bob"
    /\ sessions = <<[Session("attached") EXCEPT !.room = "in"]>>
    /\ sfutest = 1
    /\ janusRef = 1
    /\ offers = <<Offer(TRUE)>>
    /\ pendingSubs = <<>>
    /\ feeds = [i \in 0..(FeedsLen - 1) |-> NoFeed]
    /\ strays = {}
    /\ lastAlert = NoAlertYet
    /\ pendingReloads = {}
    /\ faults = 0

\* useState({}) and useState(0); handleStart ran in the first render, so its
\* callbacks hold the localTracks of that render
InitLocalVars ==
    /\ localTracks = {}
    /\ localVideos = 0
    /\ closureTracks = {}
    /\ localCalls = 0
    /\ lastLocal = NoLocalCall

IdleLocalVars == InitLocalVars

\* if (localTracks[trackId]) in onlocaltrack: localTracks is the constant of
\* the render handleStart was called in
Known(id) == id \in closureTracks

\* onlocaltrack(track, on) of the publisher handle
LocalTrack ==
    \E track \in LocalTrackArgs :
        /\ localCalls < MaxLocalCalls
        /\ localCalls' = localCalls + 1
        /\ lastLocal' = track
        /\ IF ~track.on
           THEN /\ localVideos' = IF KindOf(track.id) = "video"
                                  THEN localVideos - 1 ELSE localVideos
                /\ localTracks' = localTracks \ {TrackId(track)}
                /\ UNCHANGED showVideos
           ELSE IF Known(TrackId(track))
           THEN UNCHANGED <<localVideos, localTracks, showVideos>>
           ELSE /\ showVideos' = TRUE
                /\ IF KindOf(track.id) = "audio"
                   THEN UNCHANGED <<localVideos, localTracks>>
                   ELSE /\ localVideos' = localVideos + 1
                        /\ localTracks' = localTracks \cup {TrackId(track)}
        /\ UNCHANGED closureTracks
        /\ UNCHANGED notLocalVars

\* oncleanup of the publisher handle
LocalCleanup ==
    /\ localTracks # {} \/ localVideos # 0
    /\ localTracks' = {}
    /\ localVideos' = 0
    /\ UNCHANGED <<showVideos, closureTracks, localCalls, lastLocal>>
    /\ UNCHANGED notLocalVars

NextLocal == LocalTrack \/ LocalCleanup

(***************************************************************************)
(* The VideoRoom component: the query string                               *)
(***************************************************************************)

\* parameters in a query string
MaxParams == 2

\* strings are sequences of characters; "%65" is the escape of e, "%" an
\* escape cut short
Yes == <<"y", "e", "s">>
True == <<"t", "r", "u", "e">>
Null == <<"null">>
\* a number: an integer, or NaN
Num(n) == [nan |-> FALSE, n |-> n]
NaN == [nan |-> TRUE, n |-> 0]

BoolNames == {"simulcast", "dtx", "subscriber-mode", "msid"}
CodecNames == {"svc", "acodec", "vcodec"}
BoolValues == {<<>>, Yes, True, <<"Y", "e", "s">>, <<"y", "e", "s", "+">>,
               <<"y", "%65", "s">>, <<"%">>}
CodecValues == {<<>>, <<"v", "p", "9">>, <<"+">>}
RoomValues == {<<>>, <<"4", "2">>, <<"7">>, <<"+", "4", "2">>, <<"4", "2", "a">>,
               <<"-", "7">>, <<"a">>}
Param(n, v) == [name |-> n, raw |-> v]
Params ==
    {Param(n, v) : n \in BoolNames, v \in BoolValues}
    \cup {Param(n, v) : n \in CodecNames, v \in CodecValues}
    \cup {Param("room", v) : v \in RoomValues}
    \cup {Param("other", Yes)}
Searches == UNION {[1..n -> Params] : n \in 0..MaxParams}

\* results[1].replace(/\+/g, " ")
PlusToSpace(v) == [k \in 1..Len(v) |-> IF v[k] = "+" THEN " " ELSE v[k]]

\* whether decodeURIComponent throws a URIError
Malformed(v) == \E k \in 1..Len(v) : v[k] = "%"

\* decodeURIComponent of a string it accepts
decodeURIComponent(v) == [k \in 1..Len(v) |-> IF v[k] = "%65" THEN "e" ELSE v[k]]

\* the regular expression finding the last parameter of that name
ExecLast(q, name) ==
    LET hit == {k \in 1..Len(q) : q[k].name = name}
    IN  IF hit = {} THEN 0 ELSE CHOOSE k \in hit : \A j \in hit : k >= j

\* regex.exec(window.location.search): the first parameter of that name, 0
\* for null
Exec(q, name) ==
    LET hit == {k \in 1..Len(q) : q[k].name = name}
    IN  IF hit = {} THEN 0 ELSE CHOOSE k \in hit : \A j \in hit : k <= j

\* whether getQueryStringValue(name) throws
Throws(q, name) == Exec(q, name) # 0 /\ Malformed(PlusToSpace(q[Exec(q, name)].raw))

\* getQueryStringValue(name), when it does not throw
getQueryStringValue(q, name) ==
    IF Exec(q, name) = 0 THEN <<>>
    ELSE decodeURIComponent(PlusToSpace(q[Exec(q, name)].raw))

\* === "yes" || === "true"
IsYesOrTrue(v) == v = Yes \/ v = True

\* getQueryStringValue(...) || null
OrNull(v) == IF v = <<>> THEN Null ELSE v

Digits == {"0", "2", "4", "7"}
DigitValue(c) == CASE c = "0" -> 0 [] c = "2" -> 2 [] c = "4" -> 4 [] c = "7" -> 7

\* the value of the longest prefix of digits of v after acc, and whether
\* there was a digit
RECURSIVE ParseDigits(_, _, _)
ParseDigits(v, acc, any) ==
    IF v # <<>> /\ Head(v) \in Digits
    THEN ParseDigits(Tail(v), 10 * acc + DigitValue(Head(v)), TRUE)
    ELSE [value |-> acc, any |-> any]

RECURSIVE SkipSpace(_)
SkipSpace(v) == IF v # <<>> /\ Head(v) = " " THEN SkipSpace(Tail(v)) ELSE v

\* parseInt(v): leading white space skipped, a sign, then as many decimal
\* digits as there are; NaN without a digit
parseInt(v) ==
    LET t == SkipSpace(v)
        neg == t # <<>> /\ Head(t) = "-"
        u == IF t # <<>> /\ Head(t) \in {"-", "+"} THEN Tail(t) ELSE t
        d == ParseDigits(u, 0, FALSE)
    IN  IF ~d.any THEN NaN ELSE IF neg THEN Num(0 - d.value) ELSE Num(d.value)

NoFlags == [st |-> "none"]

InitQueryVars ==
    /\ search \in Searches
    /\ flags = NoFlags

IdleQueryVars ==
    /\ search = <<>>
    /\ flags = NoFlags

\* a render of VideoRoom: the constants it computes from the query string.  A
\* URIError of decodeURIComponent ends the render.
RenderVideoRoom ==
    /\ flags = NoFlags
    /\ appView = "VideoRoom"
    /\ flags' =
         IF \E n \in BoolNames \cup CodecNames : Throws(search, n)
         THEN [st |-> "threw"]
         ELSE [st |-> "rendered",
               doSimulcast |-> IsYesOrTrue(getQueryStringValue(search, "simulcast")),
               doSvc |-> OrNull(getQueryStringValue(search, "svc")),
               acodec |-> OrNull(getQueryStringValue(search, "acodec")),
               vcodec |-> OrNull(getQueryStringValue(search, "vcodec")),
               doDtx |-> IsYesOrTrue(getQueryStringValue(search, "dtx")),
               subscriberMode |->
                   IsYesOrTrue(getQueryStringValue(search, "subscriber-mode")),
               useMsid |-> IsYesOrTrue(getQueryStringValue(search, "msid")),
               myroom |-> Num(1234)]
    /\ UNCHANGED search
    /\ UNCHANGED notQueryVars

\* the effect run once after the first render: the room to join
InitEffect ==
    /\ flags.st = "rendered"
    /\ flags' =
         IF ~windowJanus THEN [flags EXCEPT !.st = "mounted"]
         ELSE IF Throws(search, "room") THEN [st |-> "threw"]
         ELSE IF getQueryStringValue(search, "room") # <<>>
         THEN [flags EXCEPT !.st = "mounted",
                            !.myroom = parseInt(getQueryStringValue(search, "room"))]
         ELSE [flags EXCEPT !.st = "mounted"]
    /\ UNCHANGED search
    /\ UNCHANGED notQueryVars

NextQuery == RenderVideoRoom \/ InitEffect

(***************************************************************************)
(* index.js: the navigator.mediaDevices polyfill                           *)
(***************************************************************************)

\* the legacy entry points in the order of the || chain
LegacyOrder == <<"getUserMedia", "webkitGetUserMedia", "mozGetUserMedia",
                 "msGetUserMedia">>
LegacyNames == {LegacyOrder[k] : k \in 1..Len(LegacyOrder)}

\* a browser: whether it has navigator.mediaDevices, whether that has
\* getUserMedia, which legacy entry points navigator has, and whether a legacy
\* entry point throws when called
Browsers ==
    {b \in [md : BOOLEAN, native : BOOLEAN, legacy : SUBSET LegacyNames,
            legacyThrows : BOOLEAN] : b.native => b.md}

NoCall == [kind |-> "none", api |-> "none"]

InitShimVars ==
    /\ browser \in Browsers
    /\ mediaDevices = IF browser.md THEN "object" ELSE "undefined"
    /\ gum = IF browser.native THEN "native" ELSE "undefined"
    /\ shimPc = "start"
    /\ gumResult = NoCall

IdleShimVars ==
    /\ browser = [md |-> TRUE, native |-> TRUE, legacy |-> {}, legacyThrows |-> FALSE]
    /\ mediaDevices = "object"
    /\ gum = "native"
    /\ shimPc = "idle"
    /\ gumResult = NoCall

\* the || chain taken from its end
LastLegacy(have) ==
    IF have = {} THEN "none"
    ELSE LegacyOrder[CHOOSE k \in 1..Len(LegacyOrder) :
             /\ LegacyOrder[k] \in have
             /\ \A j \in (k + 1)..Len(LegacyOrder) : LegacyOrder[j] \notin have]

\* navigator.getUserMedia || navigator.webkitGetUserMedia || ...: the first
\* one there is, "none" for undefined
FirstLegacy(have) ==
    IF have = {} THEN "none"
    ELSE LegacyOrder[CHOOSE k \in 1..Len(LegacyOrder) :
             /\ LegacyOrder[k] \in have
             /\ \A j \in 1..(k - 1) : LegacyOrder[j] \notin have]

\* the first two if statements of index.js
InstallShim ==
    /\ shimPc = "start"
    /\ shimPc' = "installed"
    /\ mediaDevices' = "object"
    /\ gum' = IF gum = "undefined" THEN "shim" ELSE gum
    /\ UNCHANGED <<browser, gumResult>>
    /\ UNCHANGED notShimVars

\* the function the polyfill installs: what a call of it does
ShimCall ==
    IF FirstLegacy(browser.legacy) = "none"
    THEN [kind |-> "rejected promise", api |-> "none"]
    ELSE IF browser.legacyThrows
    THEN [kind |-> "rejected promise", api |-> FirstLegacy(browser.legacy)]
    ELSE [kind |-> "promise", api |-> FirstLegacy(browser.legacy)]

\* a call of navigator.mediaDevices.getUserMedia(constraints) after index.js
\* has run
CallGetUserMedia ==
    /\ shimPc = "installed"
    /\ shimPc' = "called"
    /\ gumResult' = IF gum = "shim" THEN ShimCall
                    ELSE [kind |-> "promise", api |-> "native"]
    /\ UNCHANGED <<browser, mediaDevices, gum>>
    /\ UNCHANGED notShimVars

NextShim == InstallShim \/ CallGetUserMedia

(***************************************************************************)
(* App: loading the scripts                                                *)
(***************************************************************************)

\* runs of App's effect: two under React.StrictMode in development
MaxMounts == 2

\* a run of the effect: the adapter script, the timer of its onload, the
\* janus.js script with the number of times it was appended, and whether the
\* cleanup of the effect has run
FreshMount == [adapter |-> "loading", timer |-> "none", janus |-> "none",
               appends |-> 0, cleaned |-> FALSE]

InitLoadVars ==
    /\ janusDefines \in BOOLEAN
    /\ windowJanus = FALSE
    /\ mounts = <<>>
    /\ janusLoaded = FALSE
    /\ appView = "none"

\* nothing of the UI runs
IdleLoadVars ==
    /\ janusDefines = TRUE
    /\ windowJanus = FALSE
    /\ mounts = <<>>
    /\ janusLoaded = FALSE
    /\ appView = "none"

\* App has loaded janus.js and renders VideoRoom
ReadyLoadVars ==
    /\ janusDefines = TRUE
    /\ windowJanus = TRUE
    /\ mounts = <<[adapter |-> "loaded", timer |-> "fired", janus |-> "loaded",
                   appends |-> 1, cleaned |-> FALSE]>>
    /\ janusLoaded = TRUE
    /\ appView = "VideoRoom"

\* the render of App: the spinner until janusLoaded
AppRender ==
    /\ appView' = IF janusLoaded THEN "VideoRoom" ELSE "spinner"
    /\ appView' # appView
    /\ UNCHANGED <<janusDefines, windowJanus, mounts, janusLoaded>>
    /\ UNCHANGED notLoadVars

\* the effect of App runs: the adapter script is appended
AppMount ==
    /\ appView # "none"
    /\ Len(mounts) < MaxMounts
    /\ IF mounts = <<>> THEN TRUE ELSE mounts[Len(mounts)].cleaned
    /\ mounts' = Append(mounts, FreshMount)
    /\ UNCHANGED <<janusDefines, windowJanus, janusLoaded, appView>>
    /\ UNCHANGED notLoadVars

\* the cleanup of the effect: the script elements leave the document; what
\* they load and the timer go on
AppCleanup ==
    /\ mounts # <<>>
    /\ ~mounts[Len(mounts)].cleaned
    /\ mounts' = [mounts EXCEPT ![Len(mounts)].cleaned = TRUE]
    /\ UNCHANGED <<janusDefines, windowJanus, janusLoaded, appView>>
    /\ UNCHANGED notLoadVars

\* appending janus.js together with arming the timer
AppendedAtOnce(m) == [m EXCEPT !.adapter = "loaded", !.timer = "armed",
                               !.janus = "appended", !.appends = @ + 1]

\* adapterScript.onload: setTimeout(..., 100)
AfterAdapterLoad(m) == [m EXCEPT !.adapter = "loaded", !.timer = "armed"]

\* document.body.appendChild(script) with script.onload set
AppendJanus(m) == [m EXCEPT !.janus = "appended", !.appends = @ + 1]

AdapterOnload ==
    \E k \in 1..Len(mounts) :
        /\ mounts[k].adapter = "loading"
        /\ mounts' = [mounts EXCEPT ![k] = AfterAdapterLoad(mounts[k])]
        /\ UNCHANGED <<janusDefines, windowJanus, janusLoaded, appView>>
        /\ UNCHANGED notLoadVars

\* the callback of the timer of adapterScript.onload
AdapterTimer ==
    \E k \in 1..Len(mounts) :
        /\ mounts[k].timer = "armed"
        /\ mounts' = [mounts EXCEPT ![k] = AppendJanus([mounts[k] EXCEPT !.timer = "fired"])]
        /\ UNCHANGED <<janusDefines, windowJanus, janusLoaded, appView>>
        /\ UNCHANGED notLoadVars

\* adapterScript.onerror
AdapterOnerror ==
    \E k \in 1..Len(mounts) :
        /\ mounts[k].adapter = "loading"
        /\ mounts' = [mounts EXCEPT ![k] = AppendJanus([mounts[k] EXCEPT !.adapter = "failed"])]
        /\ UNCHANGED <<janusDefines, windowJanus, janusLoaded, appView>>
        /\ UNCHANGED notLoadVars

\* script.onload without its test of window.Janus
OnloadSetsAlways(wj) == TRUE

\* script.onload: if (window.Janus) setJanusLoaded(true)
OnloadSets(wj) == wj

\* janus.js has run, and then script.onload
JanusOnload ==
    \E k \in 1..Len(mounts) :
        /\ mounts[k].janus = "appended"
        /\ mounts' = [mounts EXCEPT ![k].janus = "loaded"]
        /\ windowJanus' = (windowJanus \/ janusDefines)
        /\ janusLoaded' = (janusLoaded \/ OnloadSets(windowJanus \/ janusDefines))
        /\ UNCHANGED <<janusDefines, appView>>
        /\ UNCHANGED notLoadVars

\* janus.js could not be loaded: no handler is set for that
JanusOnerror ==
    \E k \in 1..Len(mounts) :
        /\ mounts[k].janus = "appended"
        /\ mounts' = [mounts EXCEPT ![k].janus = "failed"]
        /\ UNCHANGED <<janusDefines, windowJanus, janusLoaded, appView>>
        /\ UNCHANGED notLoadVars

NextLoad ==
    \/ AppRender
    \/ AppMount
    \/ AppCleanup
    \/ AdapterOnload
    \/ AdapterTimer
    \/ AdapterOnerror
    \/ JanusOnload
    \/ JanusOnerror

(***************************************************************************)
(* Specifications                                                          *)
(***************************************************************************)

\* the parts of the browser side at rest, and with App showing VideoRoom
IdleWeb == IdleRemoteVars /\ IdleLocalVars /\ IdleQueryVars /\ IdleLoadVars /\ IdleShimVars
ReadyWeb == IdleRemoteVars /\ IdleLocalVars /\ IdleQueryVars /\ ReadyLoadVars /\ IdleShimVars

InitEntry == InitEntryVars /\ IdleSqlVars /\ IdleUiVars /\ IdleCallVars /\ IdleWeb
SpecEntry == InitEntry /\ [][NextEntry]_vars

InitSql == IdleEntryVars /\ InitSqlVars /\ IdleUiVars /\ IdleCallVars /\ IdleWeb
SpecSql == InitSql /\ [][NextSql]_vars

InitSchema == IdleEntryVars /\ InitSchemaVars /\ IdleUiVars /\ IdleCallVars /\ IdleWeb
SpecSchema == InitSchema /\ [][NextSchema]_vars

Init == IdleEntryVars /\ IdleSqlVars /\ InitUiVars /\ IdleCallVars /\ ReadyWeb
Spec == Init /\ [][Next]_vars

InitAlert == IdleEntryVars /\ IdleSqlVars /\ IdleUiVars /\ InitCallVars /\ ReadyWeb
SpecAlert == InitAlert /\ [][NextAlert]_vars

InitQuery ==
    /\ IdleEntryVars /\ IdleSqlVars /\ IdleUiVars /\ IdleCallVars
    /\ IdleRemoteVars /\ IdleLocalVars /\ InitQueryVars /\ ReadyLoadVars /\ IdleShimVars
SpecQuery == InitQuery /\ [][NextQuery]_vars

InitShim ==
    /\ IdleEntryVars /\ IdleSqlVars /\ IdleUiVars /\ IdleCallVars
    /\ IdleRemoteVars /\ IdleLocalVars /\ IdleQueryVars /\ IdleLoadVars /\ InitShimVars
SpecShim == InitShim /\ [][NextShim]_vars

InitLoad ==
    /\ IdleEntryVars /\ IdleSqlVars /\ IdleUiVars /\ IdleCallVars
    /\ IdleRemoteVars /\ IdleLocalVars /\ IdleQueryVars /\ InitLoadVars /\ IdleShimVars
SpecLoad == InitLoad /\ [][NextLoad]_vars
\* a timer that was armed fires
SpecLoadFair == SpecLoad /\ WF_vars(AdapterTimer)

InitRemote ==
    /\ IdleEntryVars /\ IdleSqlVars /\ IdleCallVars
    /\ InitRemoteVars /\ IdleLocalVars /\ IdleQueryVars /\ ReadyLoadVars /\ IdleShimVars
SpecRemote == InitRemote /\ [][NextRemote]_vars

\* the page with the publisher alone: no failures of the session and no remote
\* feeds attached
NextPublish ==
    \/ PageLoad
    \/ handleStart
    \/ handleStop
    \/ handleRegister
    \/ setUsername
    \/ SessionSuccess
    \/ SessionDestroyed
    \/ AttachSuccess
    \/ PubJoined
    \/ OfferSuccess
    \/ OfferError
    \/ OnLocalTrack
SpecPublish == Init /\ [][NextPublish]_vars
\* a createOffer ends in one of its callbacks
SpecPublishFair == SpecPublish /\ WF_vars(OfferSuccess \/ OfferError)

InitLocal ==
    /\ IdleEntryVars /\ IdleSqlVars /\ IdleCallVars /\ Publishing
    /\ IdleRemoteVars /\ InitLocalVars /\ IdleQueryVars /\ ReadyLoadVars /\ IdleShimVars
SpecLocal == InitLocal /\ [][NextLocal]_vars

(***************************************************************************)
(* Properties of the VideoRoom page                                        *)
(***************************************************************************)

\* C1: whatever the subscriber-mode flag, the step in which the publisher
\* handle processes a 'joined' message leaves the join form hidden and the
\* video grid shown.
C1_JoinedHidesForm ==
    [][(~joined /\ joined') => (~showJoinForm' /\ showVideos')]_vars

\* the createOffer numbered i fails in this step
OfferFails(i) ==
    /\ offers[i].st = "pending"
    /\ Len(offers') >= i
    /\ offers'[i].st = "failed"

\* the Janus session numbered s fails in this step, in creation, in its plugin
\* attach or later
SessionFails(s) ==
    /\ sessions[s].st \notin {"dead", "failed"}
    /\ Len(sessions') >= s
    /\ sessions'[s].st \in {"dead", "failed"}

\* a createAnswer fails in this step
AnswerFails ==
    \/ \E i \in Slots : feeds[i].answer = "pending" /\ feeds'[i].answer = "failed"
    \/ \E f \in strays : /\ f.answer = "pending"
                         /\ f \notin strays'
                         /\ [f EXCEPT !.answer = "failed"] \in strays'

\* no createAnswer is issued in this step
NoNewAnswer ==
    /\ \A i \in Slots : feeds'[i].answer = "pending" => feeds'[i] = feeds[i]
    /\ \A f \in strays' : f.answer = "pending" => f \in strays

\* C2 as stated: a failed createOffer is never followed by another createOffer
\* issued by the page itself.
C2_NoRetry ==
    [][\A i \in 1..Len(offers) : OfferFails(i) => Len(offers') = Len(offers)]_vars

\* C2: no failure callback issues its operation again, with one exception: a
\* createOffer that asked for audio and failed is followed by exactly one
\* createOffer without audio.  A failed createOffer without audio, a failed
\* session or plugin attach and a failed createAnswer are followed by nothing.
C2_OnlyAudioFallback ==
    [][/\ \A i \in 1..Len(offers) :
            OfferFails(i) =>
                offers' = [offers EXCEPT ![i].st = "failed"]
                          \o (IF offers[i].audio
                              THEN <<[audio |-> FALSE, st |-> "pending"]>>
                              ELSE <<>>)
       /\ \A s \in 1..Len(sessions) :
            SessionFails(s) =>
                /\ Len(sessions') = Len(sessions)
                /\ \A t \in 1..Len(sessions) : t # s => sessions'[t] = sessions[t]
                /\ offers' = offers
                /\ pendingSubs' = pendingSubs
       /\ AnswerFails => (pendingSubs' = pendingSubs /\ NoNewAnswer /\ offers' = offers)
      ]_vars

\* a createOffer with audio failed, the one without audio that followed it
\* failed as well, and no third one was issued
C2_Witness ==
    /\ Len(offers) = 2
    /\ offers[1].audio /\ offers[1].st = "failed"
    /\ ~offers[2].audio /\ offers[2].st = "failed"

\* the channel the precedence of safeAlert selects
PrecedenceChannel ==
    IF alertCall.bb = "ok" THEN "bootbox"
    ELSE IF alertCall.bb = "absent" /\ alertCall.ts = "ok" THEN "toastr"
    ELSE "alert"

\* C3: a call of safeAlert that has returned has shown its message exactly
\* once, on the bootbox modal when bootbox works, else on the toastr toast when
\* bootbox is absent and toastr works, else on the plain alert (so also when a
\* library threw); a callback that was supplied has been handed over exactly
\* once, to bootbox when bootbox showed the message and to a timer otherwise,
\* and none has been handed over when none was supplied.
C3_OnceOneChannel ==
    alertCall.st = "returned" =>
        LET shows == {k \in 1..Len(alertEff) : alertEff[k].op = "show"}
            hands == {k \in 1..Len(alertEff) : alertEff[k].op = "hand"}
        IN  /\ Cardinality(shows) = 1
            /\ \A k \in shows : alertEff[k].ch = PrecedenceChannel
            /\ Cardinality(hands) = IF alertCall.cb THEN 1 ELSE 0
            /\ \A k \in hands :
                   /\ alertEff[k].ch =
                        IF PrecedenceChannel = "bootbox" THEN "bootbox" ELSE "timer"
                   /\ \A j \in shows : j < k

\* bootbox threw, and the call has returned with a callback having been
\* supplied
C3_Witness ==
    /\ alertCall.st = "returned"
    /\ alertCall.bb = "throws"
    /\ alertCall.cb
    /\ alertEff # <<>>

\* the remote feed numbered k of those awaiting it gets its 'attached' message
\* in this step
AttachedStep(k) ==
    /\ pendingSubs[k].st = "joining"
    /\ pendingSubs' = Without(pendingSubs, k)
    /\ faults' = faults
    /\ page' = "loaded"

\* C4: slot 0 never holds a remote feed, so at most five remote feeds hold a
\* slot; and when the five slots are occupied, the 'attached' message of a
\* further remote feed gives it no slot and changes no slot.
C4_FiveSlots ==
    [][/\ feeds'[0] = NoFeed
       /\ Cardinality({i \in DOMAIN feeds' : feeds'[i] # NoFeed}) <= 5
       /\ \A k \in 1..Len(pendingSubs) :
            (AttachedStep(k) /\ \A i \in 1..5 : feeds[i] # NoFeed) =>
                /\ feeds' = feeds
                /\ \E f \in strays' : f.rfid = pendingSubs[k].rfid /\ f.answer = "pending"
      ]_vars

\* the five slots are occupied and a sixth remote feed was attached
C4_Witness ==
    /\ \A i \in 1..5 : feeds[i] # NoFeed
    /\ \E f \in strays : f.answer = "pending"

\* C21: the join form is shown only while the session is started.
C21_FormOnlyWhileStarted == showJoinForm => started

\* C24: a createOffer with audio that fails is followed by exactly one
\* createOffer without audio, issued in the same step; one without audio that
\* fails is followed by the WebRTC error message and by no createOffer; no
\* createOffer without audio is issued otherwise; and every createOffer ends:
\* in the configure request, in its failure, or with the page.
C24_OfferTerminates ==
    /\ [][/\ \A i \in 1..Len(offers) :
               OfferFails(i) =>
                   IF offers[i].audio
                   THEN offers' = Append([offers EXCEPT ![i].st = "failed"],
                                         [audio |-> FALSE, st |-> "pending"])
                   ELSE /\ offers' = [offers EXCEPT ![i].st = "failed"]
                        /\ lastAlert'.msg = "WebRTC error... "
          /\ (Len(offers') > Len(offers) /\ ~offers'[Len(offers')].audio) =>
                 \E i \in 1..Len(offers) : OfferFails(i) /\ offers[i].audio
         ]_vars
    /\ \A i \in 1..MaxOffers :
           (Len(offers) >= i /\ offers[i].st = "pending")
               ~> (Len(offers) < i \/ offers[i].st \in {"configured", "failed"})

\* the createOffer with audio failed and the one without audio that followed
\* it led to the configure request
C24_Witness ==
    /\ Len(offers) = 2
    /\ offers[1].audio /\ offers[1].st = "failed"
    /\ ~offers[2].audio /\ offers[2].st = "configured"

\* the names made of ASCII letters and digits only, the empty one apart
LettersAndDigits == {"bob"}

\* C25: a call of handleRegister with a name of letters and digits sets
\* myUsername to it, keeps username and sends one join request on the
\* publisher handle; with any other name it sends nothing and keeps
\* myUsername, and username is empty afterwards.  No other step sends a join
\* request.
C25_RegisterChecksName ==
    [][/\ handleRegister =>
            IF username \in LettersAndDigits
            THEN /\ myUsername' = username
                 /\ username' = username
                 /\ CanSend => sessions' = [sessions EXCEPT ![sfutest].joins = @ + 1]
                 /\ ~CanSend => sessions' = sessions
            ELSE /\ sessions' = sessions
                 /\ myUsername' = myUsername
                 /\ username' = ""
       /\ \A k \in 1..Len(sessions) :
            (Len(sessions') >= k /\ sessions'[k].joins > sessions[k].joins) =>
                /\ username \in LettersAndDigits
                /\ showJoinForm
                /\ myUsername' = username
      ]_vars

\* a join request is under way for the name bob
C25_Witness ==
    /\ Len(sessions) = 1
    /\ sessions[1].joins = 1
    /\ sessions[1].room = "out"
    /\ myUsername = "bob"
    /\ username = "bob"

\* C26: once the 'joined' message was handled, and until Stop, no join
\* request is sent.
C26_NoJoinAfterJoined ==
    [][joined =>
          \A k \in 1..Len(sessions) :
              Len(sessions') >= k => sessions'[k].joins <= sessions[k].joins
      ]_vars

\* C18: no two of the slots 1..5 hold remote feeds of the same publisher.
C18_DistinctPublishers ==
    \A i, j \in 1..5 :
        (i < j /\ feeds[i] # NoFeed /\ feeds[j] # NoFeed) =>
            feeds[i].rfid # feeds[j].rfid

\* C20: when a remote feed gets its 'attached' message and one of the slots
\* 1..5 is empty, the empty slot with the lowest number holds that feed
\* afterwards and every other entry of the feeds array is as it was.
C20_LowestFreeSlot ==
    [][\A k \in 1..Len(pendingSubs) : \A low \in 1..5 :
          (/\ AttachedStep(k)
           /\ feeds[low] = NoFeed
           /\ \A i \in 1..(low - 1) : feeds[i] # NoFeed) =>
              /\ DOMAIN feeds' = DOMAIN feeds
              /\ feeds'[low] # NoFeed
              /\ feeds'[low].rfid = pendingSubs[k].rfid
              /\ \A j \in DOMAIN feeds \ {low} : feeds'[j] = feeds[j]
              /\ strays' = strays
      ]_vars

\* slot 1 was emptied and taken again while slots 2 and 3 were held: the
\* feed in slot 1 still awaits the answer to its offer, the others do not
C20_Witness ==
    /\ feeds[1] # NoFeed /\ feeds[1].answer = "pending"
    /\ feeds[2] # NoFeed /\ feeds[2].answer # "pending"
    /\ feeds[3] # NoFeed /\ feeds[3].answer # "pending"
    /\ feeds[4] = NoFeed

ReloadMessages == {"The room has been destroyed", "session error"}

C16_NoSlotAfterLeave ==
    \A i \in 1..5 : feeds[i] # NoFeed => feeds[i].rfid \in feedStreams

\* C17: an 'event' message or a track delivered to the subscriber handle of a
\* remote feed changes no entry of the feeds array but the one made from
\* that remote feed.
C17_OwnSlotOnly ==
    [][Len(callbacks') = Len(callbacks) + 1 =>
          \A i \in DOMAIN feeds :
              feeds'[i] # feeds[i] =>
                  /\ feeds[i] # NoFeed
                  /\ feeds[i].feed = callbacks'[Len(callbacks')].feed
      ]_vars

\* C19: a subscriber handle that is attached and that detach() was not called
\* on belongs to an announced publisher: once the 'leaving' or 'unpublished'
\* message of its publisher was handled, and until a publishers list names the
\* publisher again, every handle got its detach(), with or without a slot.
C19_DetachedAfterLeave ==
    \A k \in 1..Len(remoteFeeds) :
        remoteFeeds[k].handle \in {"joining", "subscribed"} =>
            remoteFeeds[k].rfid \in feedStreams

(***************************************************************************)
(* Properties of the local tracks                                          *)
(***************************************************************************)

\* C22: localVideos is never negative and is the number of streams that
\* localTracks holds.
C22_VideosCountTracks ==
    /\ localVideos >= 0
    /\ localVideos = Cardinality(localTracks)

\* C23: an onlocaltrack call that adds a track whose id localTracks holds
\* already changes neither localTracks nor localVideos.
C23_DuplicateIgnored ==
    [][(/\ localCalls' = localCalls + 1
        /\ lastLocal'.on
        /\ TrackId(lastLocal') \in localTracks) =>
           /\ localTracks' = localTracks
           /\ localVideos' = localVideos
      ]_vars

(***************************************************************************)
(* Properties of the query string                                          *)
(***************************************************************************)

\* the first parameter of that name in the query string, 0 when there is none
FirstNamed(n) ==
    IF \E k \in 1..Len(search) : search[k].name = n
    THEN CHOOSE k \in 1..Len(search) :
             search[k].name = n /\ \A j \in 1..(k - 1) : search[j].name # n
    ELSE 0

\* the flag VideoRoom computed for that name
FlagOf(n) ==
    CASE n = "simulcast" -> flags.doSimulcast
      [] n = "dtx" -> flags.doDtx
      [] n = "subscriber-mode" -> flags.subscriberMode
      [] n = "msid" -> flags.useMsid
      [] n = "svc" -> flags.doSvc
      [] n = "acodec" -> flags.acodec
      [] n = "vcodec" -> flags.vcodec

\* a value written without + and without escapes
Plain(v) == \A k \in 1..Len(v) : v[k] \notin {"+", "%65", "%"}

\* the boolean flags and svc, acodec, vcodec are as C12 says
FlagsAsStated ==
    /\ \A n \in BoolNames :
         /\ FirstNamed(n) = 0 => ~FlagOf(n)
         /\ (FirstNamed(n) # 0 /\ Plain(search[FirstNamed(n)].raw)) =>
                (FlagOf(n) <=> search[FirstNamed(n)].raw
                                  \in {<<"y", "e", "s">>, <<"t", "r", "u", "e">>})
    /\ \A n \in CodecNames :
         (FirstNamed(n) = 0 \/ search[FirstNamed(n)].raw = <<>>) =>
             FlagOf(n) = <<"null">>

RoomOf(raw) ==
    CASE raw = <<>> -> [nan |-> FALSE, n |-> 1234]
      [] raw = <<"4", "2">> -> [nan |-> FALSE, n |-> 42]
      [] raw = <<"7">> -> [nan |-> FALSE, n |-> 7]
      [] raw = <<"+", "4", "2">> -> [nan |-> FALSE, n |-> 42]
      [] raw = <<"4", "2", "a">> -> [nan |-> FALSE, n |-> 42]
      [] raw = <<"-", "7">> -> [nan |-> FALSE, n |-> 0 - 7]
      [] raw = <<"a">> -> [nan |-> TRUE, n |-> 0]

C13_ShimDelegates ==
    /\ browser.native => gum = "native"
    /\ (shimPc = "called" /\ gum = "shim") =>
         LET have == browser.legacy
         IN  /\ gumResult.kind \in {"promise", "rejected promise"}
             /\ have = {} => gumResult = [kind |-> "rejected promise", api |-> "none"]
             /\ "getUserMedia" \in have => gumResult.api = "getUserMedia"
             /\ (have # {} /\ "getUserMedia" \notin have) =>
                  gumResult.api =
                    IF "webkitGetUserMedia" \in have THEN "webkitGetUserMedia"
                    ELSE IF "mozGetUserMedia" \in have THEN "mozGetUserMedia"
                    ELSE "msGetUserMedia"

\* the installed function was called in a browser that has the moz and the ms
\* entry points only, and went to the moz one
C13_Witness ==
    /\ shimPc = "called"
    /\ gum = "shim"
    /\ browser.legacy = {"mozGetUserMedia", "msGetUserMedia"}
    /\ gumResult.api = "mozGetUserMedia"

\* C14: in every run of App's effect janus.js is appended at most once and
\* not while the adapter script is still loading; and once the adapter script
\* has loaded or failed, janus.js gets appended.
C14_JanusAfterAdapter ==
    /\ [](\A k \in 1..Len(mounts) :
            /\ mounts[k].appends <= 1
            /\ (mounts[k].appends > 0 \/ mounts[k].janus # "none") =>
                   mounts[k].adapter \in {"loaded", "failed"})
    /\ \A k \in 1..MaxMounts :
         (Len(mounts) >= k /\ mounts[k].adapter # "loading")
             ~> (Len(mounts) >= k /\ mounts[k].appends = 1)

\* the effect ran twice; the adapter script of the first run loaded and its
\* timer appended janus.js after the cleanup
C14_Witness ==
    /\ Len(mounts) = 2
    /\ mounts[1].adapter = "loaded"
    /\ mounts[1].timer = "fired"
    /\ mounts[1].appends = 1

\* C15: App shows VideoRoom only when janusLoaded is set, janusLoaded is set
\* only when a janus.js script has loaded and window.Janus is defined, and
\* janusLoaded once set stays set.
C15_VideoRoomAfterJanus ==
    [][/\ appView' = "VideoRoom" => janusLoaded'
       /\ janusLoaded' => /\ windowJanus'
                          /\ \E k \in 1..Len(mounts') : mounts'[k].janus = "loaded"
       /\ janusLoaded => janusLoaded'
      ]_vars

\* VideoRoom is shown after the effect ran twice
C15_Witness ==
    /\ appView = "VideoRoom"
    /\ Len(mounts) = 2

(***************************************************************************)
(* Properties of the entrypoint script                                     *)
(***************************************************************************)

KnownCommands == {"help", "bash", "webserver", "payments_checker"}

\* C6: for every first argument other than help, bash, webserver and
\* payments_checker, a missing one included, the script hands nothing to exec,
\* and once it has ended it has exited with a non-zero status having printed
\* the unknown-command message and nothing else.
C6_UnknownCommand ==
    Arg1 \notin KnownCommands =>
        /\ execs = <<>>
        /\ epc[1] # "replaced"
        /\ EntryDone => /\ exitStatus > 0
                        /\ stdout = <<UnknownLine(Arg1)>>

\* the script was started without arguments and has ended
C6_Witness ==
    /\ argv = <<>>
    /\ epc[1] = "exited"
    /\ stdout # <<>>

\* C7: the script hands at most one command to exec; once it has ended,
\* webserver has exec'ed the dev server, bash a shell, payments_checker the
\* payments script, and help has printed the usage, exec'ed nothing and
\* exited with status zero.
C7_Dispatch ==
    /\ Len(execs) <= 1
    /\ EntryDone =>
         /\ Arg1 = "webserver" => execs = <<"fastapi dev server.py --host 0.0.0.0">>
         /\ Arg1 = "bash" => execs = <<"bash">>
         /\ Arg1 = "payments_checker" => execs = <<"python payments_checker.py">>
         /\ Arg1 = "help" => /\ execs = <<>>
                             /\ stdout = UsageLines
                             /\ epc[1] = "exited"
                             /\ exitStatus = 0

\* the payments script has replaced the shell
C7_Witness ==
    /\ Arg1 = "payments_checker"
    /\ epc[1] = "replaced"
    /\ execs # <<>>

(***************************************************************************)
(* Properties of the migration script                                      *)
(***************************************************************************)

\* C8: applied in file order to an empty database, every CREATE TABLE of the
\* script succeeds.
C8_CreatesSucceed ==
    dbInitial = {} => \A f \in sqlFailed : Script[f[1]].kind # "create"

\* C9: with all tables existing as declared, no seed INSERT leaves out a
\* NOT NULL column that has no default.
C9_SeedsSupplyNotNull ==
    dbInitial = TableNames => \A f \in sqlFailed : "not_null" \notin f[2]

\* C10: with all tables existing as declared and empty, every foreign key of a
\* seed row refers to a parent row that exists when the row is inserted.
C10_SeedParentsExist ==
    dbInitial = TableNames => \A f \in sqlFailed : "foreign_key" \notin f[2]

\* the table whose ids a foreign-key column of that name is meant to hold
ParentOf(col) ==
    CASE col = "map_id" -> "maps"
      [] col = "game_id" -> "games"
      [] col = "master_id" -> "masters"

\* C11: in every state of the database reached by accepted inserts, every
\* non-null map_id is the id of a maps row, every game_id the id of a games
\* row and every master_id the id of a masters row.
C11_ForeignKeysNormalized ==
    \A r \in dbRefs : r.val \in dbRows[ParentOf(r.col)]

=============================================================================
